---- MODULE Spec2Model ----
(***************************************************************************)
(* Quota accounting of the Marzban reseller bot: UserManager,              *)
(* ResellerManager and AdminLimitsManager over the shared SQLite store     *)
(* and the remote panel (MarzbanAPI).                                      *)
(*                                                                         *)
(* Units.  Byte counts are held in units of 2^28 bytes, so that one GB of  *)
(* the source (1024**3 bytes) is GiB = 4 units and the model checker's     *)
(* 32-bit integers are enough; Python and SQLite integers do not overflow  *)
(* in the ranges modelled.  Instants (datetime / ISO-8601 text) are whole  *)
(* days since the start of the run; isoformat() and fromisoformat() are    *)
(* exact inverses on them.                                                 *)
(*                                                                         *)
(* Scheduling.  Every coroutine runs without interruption up to an await   *)
(* on the injected marzban_api object; that await is a suspension point    *)
(* at which other coroutines, the panel and the clock may take steps.      *)
(* No SQLite transaction is open at those points in the operations         *)
(* modelled here (a SELECT opens none, and every write is committed        *)
(* before the next await).  marzban_api is a constructor argument of the   *)
(* managers: the await suspends whenever that object's coroutine does.     *)
(* (MarzbanAPI of bot_Version5.py calls requests synchronously; with it,   *)
(* the steps of two calls interleave only when the callers are separate    *)
(* processes or threads on the same database file.)  AdminLimitsManager    *)
(* awaits only its own get_admin_limits, which never suspends, so its      *)
(* operations are atomic.                                                  *)
(***************************************************************************)
EXTENDS Integers, Sequences, FiniteSets, TLC

VARIABLES
    now,          \* datetime.now(), in days
    api,          \* whether self.marzban_api is set (not None)
    resellers,    \* table resellers: reseller_id -> row
    end_users,    \* table end_users: sequence of rows, user_id = index
    usage_log,    \* table usage_log: sequence of rows
    admins,       \* table marzban_admins: marzban_username -> limits (JSON object)
    token,        \* MarzbanAPI.token: the bearer token the bot holds, or None
    issued,       \* remote panel: the tokens it has issued, in order, each still
                  \* valid (TRUE) or expired (FALSE)
    users,        \* table users: telegram_id -> role
    notifications,\* table notifications: sequence of rows [user_id, notification_type,
                  \* sent_at], sent_at the stored text
    panel,        \* remote panel: username -> [data_limit, expire, used_traffic]
    outbox,       \* the messages bot.send_message has delivered
    tasks,        \* the callers: task -> frame of its call (position, arguments,
                  \* locals), and after the return the arguments and the result
    conversations,\* ConversationHandler: telegram user -> state of the conversation
    user_data,    \* context.user_data: telegram user -> dict
    permissions,  \* table marzban_admins: marzban_username -> permissions (JSON list)
    activity_log, \* table activity_log: sequence of rows
    admin_calls,  \* the marzban-cli commands MarzbanAdminManager has run, in order,
                  \* each with its outcome
    flow          \* telegram user -> the update handled last, and what the user has
                  \* entered and selected since create_admin_start

vars == <<now, api, token, issued, users, resellers, end_users, usage_log, notifications,
         admins, panel, outbox, tasks, conversations, user_data, permissions,
         activity_log, admin_calls, flow>>

\* the bot's conversations and what create_admin_confirmed writes
dialogue == <<conversations, user_data, permissions, activity_log, admin_calls, flow>>

\* the MarzbanAPI object the managers are given, and the panel's side of its login
gateway == <<api, token, issued>>

store == <<users, resellers, end_users, usage_log, notifications, admins>>

\* ---------------------------------------------------------------- bounds
MaxEndUsers == 2      \* end_users rows created in one run
MaxNow == 2           \* days the clock advances
MaxTraffic == 1       \* used_traffic the panel reports, in units
MaxLimitGB == 2       \* bandwidth_limit a reseller is extended to, in GB
MaxExpiry == 2        \* expiry_date a reseller is extended to
MaxMaxUsers == 2      \* max_users a reseller is extended to
MaxAdminGB == 2       \* used_bandwidth_gb an admin is charged, in GB
MaxAdminUsers == 2    \* created_users an admin is charged
Days == 1             \* the days argument of create_reseller and create_user
MaxPage == 2          \* the page argument of the list operations (0-based)
MaxPageSize == 2      \* the page_size argument of the list operations
MaxSweepNow == 4      \* days the clock advances in the run of the notification loop
MaxAlerts == 3        \* messages delivered before the last sweep starts
SweepUserGB == 301    \* bandwidth_gb of the end-users the sweep looks at
MaxResellers == 3     \* resellers rows after the last create_reseller

\* ------------------------------------------------------------- constants
GiB == 4                       \* 1024**3 bytes, in units of 2^28 bytes
DefaultConnectionLimit == 3    \* connection_limit argument of create_user
None == -1                     \* Python's None (an argument not given, no expiry_date)
BandwidthWarningDays == 3      \* datetime('now', '-3 days') of the bandwidth sweep
ExpirySoonDays == 3            \* julianday(expiry_date) - julianday('now') <= 3
ExpiryWarningDays == 1         \* datetime('now', '-1 days') of the expiry sweep
NotificationInterval == 3600   \* os.getenv('NOTIFICATION_INTERVAL', 3600), seconds
ErrorBackoff == 300            \* asyncio.sleep(300) of check_notifications, seconds
ReportInterval == 86400        \* asyncio.sleep(86400) of send_scheduled_reports
ReportBackoff == 3600          \* asyncio.sleep(3600) of send_scheduled_reports

Tasks == {"t1", "t2"}
ResellerIds == {1, 2}
Called == {1}
OtherBandwidthGB == 1
OtherMaxUsers == 1
UnknownId == 9
TelegramOf(rid) == 100 + rid
\* the telegram ids of the people who have sent /start and are no resellers
StartedIds == {201, 202}
InitBandwidthGB == {0, 1, 2}
InitMaxUsers == {0, 1, 2}
UserBandwidthGB == {1, 2}

Min(S) == CHOOSE x \in S : \A y \in S : x <= y

ResellerName(rid) == <<"reseller", rid>>
UserName(n) == <<"user", n>>

\* ------------------------------------------------------------ task frames
NoRow == [bandwidth_limit |-> 0, expiry_date |-> 0, max_users |-> 0]

\* what a caller knows of the refresh it made just before the present one: nothing
NoPrev == [set |-> FALSE, resp |-> FALSE, traffic |-> 0, used |-> 0]

IdleTask ==
    [pc |-> "idle", op |-> "none", result |-> "none", at |-> 0,
     key |-> 0, gb |-> 0, add_bandwidth_gb |-> 0, add_days |-> 0, add_users |-> 0,
     admin |-> "", max_bandwidth |-> None, max_users |-> None, max_days |-> None,
     bandwidth_used |-> None, users_created |-> None,
     rid |-> 0, uid |-> 0, bytes |-> 0, expiry |-> 0, name |-> <<>>,
     row |-> NoRow, resp |-> FALSE, traffic |-> 0, prev |-> NoPrev,
     is_limited |-> FALSE, limit_messages |-> <<>>, limits |-> <<>>,
     page |-> 0, page_size |-> 0, total_pages |-> 0, items |-> <<>>,
     todo |-> <<>>, pending |-> <<>>, bandwidth_warnings |-> <<>>,
     expiry_warnings |-> <<>>, expiry_selected |-> FALSE, wait |-> 0,
     super_admins |-> <<>>, delivered |-> <<>>, generated |-> FALSE, failed |-> FALSE,
     status |-> 0, requests |-> 0, reauth |-> 0]

\* task t is free to make a call
Free(t) == tasks[t].pc \in {"idle", "done"}

\* the call of task t returns res at this instant: its locals are dropped, its
\* arguments, the result and row (the resellers row it had selected) are kept
Return(t, res, row) ==
    tasks' = [tasks EXCEPT ![t] =
                 [IdleTask EXCEPT !.pc = "done", !.op = tasks[t].op, !.result = res,
                                  !.at = now, !.row = row,
                                  !.key = tasks[t].key, !.gb = tasks[t].gb,
                                  !.add_bandwidth_gb = tasks[t].add_bandwidth_gb,
                                  !.add_days = tasks[t].add_days,
                                  !.add_users = tasks[t].add_users,
                                  !.admin = tasks[t].admin,
                                  !.max_bandwidth = tasks[t].max_bandwidth,
                                  !.max_users = tasks[t].max_users,
                                  !.max_days = tasks[t].max_days,
                                  !.bandwidth_used = tasks[t].bandwidth_used,
                                  !.users_created = tasks[t].users_created]]

\* a usage refresh of task t returns: besides what Return keeps, the panel's answer
\* (whether it answered, and the used_traffic it reported) is kept, and what the
\* caller knew of the refresh before
ReturnRefresh(t) ==
    tasks' = [tasks EXCEPT ![t] =
                 [IdleTask EXCEPT !.pc = "done", !.op = tasks[t].op, !.result = "Ok",
                                  !.at = now, !.key = tasks[t].key,
                                  !.resp = tasks[t].resp,
                                  !.traffic = IF tasks[t].resp THEN tasks[t].traffic ELSE 0,
                                  !.prev = tasks[t].prev]]

\* what task t knows, when it calls the refresh op on subject key, of the call it
\* made just before: the panel's answer to it if that call was the same refresh of
\* the same subject, and the bandwidth_used (used) it left stored
PrevRefresh(t, op, key, used) ==
    IF tasks[t].pc = "done" /\ tasks[t].op = op /\ tasks[t].key = key
          /\ tasks[t].result = "Ok"
    THEN [set |-> TRUE, resp |-> tasks[t].resp, traffic |-> tasks[t].traffic, used |-> used]
    ELSE NoPrev

\* task t goes on (or is suspended) with frame f
Goto(t, f) == tasks' = [tasks EXCEPT ![t] = f]

\* ---------------------------------------------------------------- tables
\* the row create_reseller inserts
ResellerRow(tg, rid, bandwidth_gb, days, max_users) ==
    [telegram_id |-> tg,
     marzban_username |-> ResellerName(rid),
     bandwidth_limit |-> bandwidth_gb * GiB,
     bandwidth_used |-> 0,
     expiry_date |-> now + days,
     max_users |-> max_users,
     current_users |-> 0]

\* SELECT ... FROM resellers WHERE telegram_id = ?
ResellersByTelegram(tg) == {r \in DOMAIN resellers : resellers[r].telegram_id = tg}

\* a uuid4 the run has not used yet
FreshUser ==
    LET used == {u[2] : u \in {x \in DOMAIN panel : x[1] = "user"}}
                \cup {end_users[i].marzban_username[2] : i \in DOMAIN end_users}
                \cup {tasks[t].name[2] : t \in {s \in Tasks : tasks[s].name # <<>>}}
    IN  UserName(Min((1..(Cardinality(used) + 1)) \ used))


\* --------------------------------------------------------- conversations
\* the people who talk to the bot
Operators == {201}

\* SUPER_ADMIN_IDS of the environment
SuperAdminIds == {201}

\* an empty dict
NoData == [k \in {} |-> 0]

\* no update handled yet, nothing entered
NoFlow == [update |-> <<>>, accepted |-> <<>>, selected |-> <<>>, cancelled |-> FALSE]

\* nobody has sent /start: no conversation, no user_data, no admin created
InitDialogue ==
    /\ conversations = [u \in Operators |-> "END"]
    /\ user_data = [u \in Operators |-> NoData]
    /\ permissions = [a \in {} |-> <<>>]
    /\ activity_log = <<>>
    /\ admin_calls = <<>>
    /\ flow = [u \in Operators |-> NoFlow]

\* ------------------------------------------------------------------ Init
AdminNames == {"admin1"}
EmptyLimits == [k \in {} |-> 0]

\* The store after setup_database and one create_reseller per reseller (used 0,
\* no end-users yet), the panel holding the resellers' accounts when the API is
\* configured, and the admins as create_admin_confirmed inserts them (limits NULL).
\* The operations are called on the resellers in Called; the other reseller is
\* there to show what they do to a row they were not called on.
Init ==
    /\ now = 0
    /\ api \in BOOLEAN
    /\ \E bw \in InitBandwidthGB, mu \in InitMaxUsers :
          resellers = [r \in ResellerIds |->
                          IF r \in Called
                          THEN ResellerRow(TelegramOf(r), r, bw, Days, mu)
                          ELSE ResellerRow(TelegramOf(r), r, OtherBandwidthGB, Days,
                                           OtherMaxUsers)]
    /\ end_users = <<>>
    /\ usage_log = <<>>
    /\ token = None
    /\ issued = <<>>
    /\ users = [tg \in {TelegramOf(r) : r \in DOMAIN resellers} |-> "reseller"]
    /\ notifications = <<>>
    /\ outbox = <<>>
    /\ admins = [a \in AdminNames |-> EmptyLimits]
    /\ panel = IF api
               THEN [u \in {ResellerName(r) : r \in ResellerIds} |->
                        [data_limit |-> resellers[u[2]].bandwidth_limit,
                         expire |-> resellers[u[2]].expiry_date,
                         used_traffic |-> 0]]
               ELSE [u \in {} |-> 0]
    /\ tasks = [t \in Tasks |-> IdleTask]
    /\ InitDialogue

\* ------------------------------------------------- UserManager.create_user
\* a user-cap test that lets the count pass the cap by one (">" for ">=")
UserLimitReachedStrict(r) == r.current_users > r.max_users

\* if current_users >= max_users
UserLimitReached(r) == r.current_users >= r.max_users

\* if bandwidth_used + user_bandwidth_bytes > bandwidth_limit
BandwidthInsufficient(r, bytes) == r.bandwidth_used + bytes > r.bandwidth_limit

\* INSERT INTO end_users (...)
EndUserRow(rid, name, bytes, expiry) ==
    [reseller_id |-> rid,
     marzban_username |-> name,
     bandwidth_limit |-> bytes,
     bandwidth_used |-> 0,
     expiry_date |-> expiry,
     connection_limit |-> DefaultConnectionLimit]

\* the UPDATE of create_user without its WHERE clause: every reseller is charged
ResellersAfterCreateEveryRow(rs, rid, bytes) ==
    [r \in DOMAIN rs |->
        [rs[r] EXCEPT !.current_users = @ + 1, !.bandwidth_used = @ + bytes]]

\* UPDATE resellers SET current_users = current_users + 1,
\*                      bandwidth_used = bandwidth_used + ? WHERE reseller_id = ?
ResellersAfterCreate(rs, rid, bytes) ==
    [r \in DOMAIN rs |->
        IF r = rid
        THEN [rs[r] EXCEPT !.current_users = @ + 1, !.bandwidth_used = @ + bytes]
        ELSE rs[r]]

\* a create_user whose INSERT is followed by UPDATE end_users SET reseller_id = NULL
\* on the rows that were there: the earlier end-users lose their reseller
CommitCreateUserOrphaning(rid, name, bytes, expiry) ==
    /\ end_users' = Append([i \in DOMAIN end_users |->
                               [end_users[i] EXCEPT !.reseller_id = None]],
                           EndUserRow(rid, name, bytes, expiry))
    /\ resellers' = ResellersAfterCreate(resellers, rid, bytes)
    /\ UNCHANGED <<usage_log, notifications, users, admins>>

\* the INSERT, the UPDATE and conn.commit() of create_user
CommitCreateUser(rid, name, bytes, expiry) ==
    /\ end_users' = Append(end_users, EndUserRow(rid, name, bytes, expiry))
    /\ resellers' = ResellersAfterCreate(resellers, rid, bytes)
    /\ UNCHANGED <<usage_log, notifications, users, admins>>

\* a denial that leaves a charge behind: the usage is added before the caps are
\* checked, and the denial does not take it back
DenyCreateUserCharged(t, res) ==
    /\ Return(t, res, NoRow)
    /\ resellers' = ResellersAfterCreate(resellers, Min(ResellersByTelegram(tasks[t].key)),
                                         tasks[t].gb * GiB)
    /\ UNCHANGED <<end_users, usage_log, notifications, users, admins, panel>>

\* return False, "...": create_user returns from a failed cap check, before any
\* remote call and any write
DenyCreateUser(t, res) ==
    /\ Return(t, res, NoRow)
    /\ UNCHANGED <<store, panel>>

CreatesInFlight ==
    Cardinality({t \in Tasks : tasks[t].pc \in {"create_user", "cu_await", "cu_resume"}})

\* a caller invokes create_user(reseller_telegram_id = tg, bandwidth_gb = gb)
CallCreateUser(t, tg, gb) ==
    /\ Free(t)
    /\ Len(end_users) + CreatesInFlight < MaxEndUsers
    /\ Goto(t, [IdleTask EXCEPT !.pc = "create_user", !.op = "create_user",
                                !.key = tg, !.gb = gb])
    /\ UNCHANGED <<now, gateway, outbox, store, panel>>
    /\ UNCHANGED dialogue

\* create_user from the SELECT to the await on marzban_api.create_user (or, with
\* no API, to the return)
CreateUserCheck(t) ==
    /\ tasks[t].pc = "create_user"
    /\ LET found == ResellersByTelegram(tasks[t].key) IN
       IF found = {}
       THEN /\ Return(t, "NotReseller", NoRow)
            /\ UNCHANGED <<store, panel>>
       ELSE LET rid == Min(found)
                r == resellers[rid]
                bytes == tasks[t].gb * GiB
                expiry == now + Days
            IN  IF UserLimitReached(r)
                THEN DenyCreateUser(t, "DeniedUsers")
                ELSE IF BandwidthInsufficient(r, bytes)
                THEN DenyCreateUser(t, "DeniedBandwidth")
                ELSE IF api
                THEN /\ Goto(t, [tasks[t] EXCEPT !.pc = "cu_await", !.rid = rid,
                                                 !.bytes = bytes, !.expiry = expiry,
                                                 !.name = FreshUser])
                     /\ UNCHANGED <<store, panel>>
                ELSE /\ CommitCreateUser(rid, FreshUser, bytes, expiry)
                     /\ Return(t, "Ok", NoRow)
                     /\ UNCHANGED panel
    /\ UNCHANGED <<now, gateway, outbox>>
    /\ UNCHANGED dialogue

\* MarzbanAPI.create_user: the panel accepts the POST (status 200)
PanelCreateUserOk(t) ==
    /\ tasks[t].pc = "cu_await"
    /\ panel' = [u \in DOMAIN panel \cup {tasks[t].name} |->
                    IF u = tasks[t].name
                    THEN [data_limit |-> tasks[t].bytes,
                          expire |-> tasks[t].expiry,
                          used_traffic |-> 0]
                    ELSE panel[u]]
    /\ Goto(t, [tasks[t] EXCEPT !.pc = "cu_resume", !.resp = TRUE])
    /\ UNCHANGED <<now, gateway, outbox, store>>
    /\ UNCHANGED dialogue

\* MarzbanAPI.create_user: login fails, the status is not 200, or requests raises
PanelCreateUserFail(t) ==
    /\ tasks[t].pc = "cu_await"
    /\ Goto(t, [tasks[t] EXCEPT !.pc = "cu_resume", !.resp = FALSE])
    /\ UNCHANGED <<now, gateway, outbox, store, panel>>
    /\ UNCHANGED dialogue

\* a create_user that writes and commits its rows before it looks at the result of
\* the remote call
CreateUserResumeCommitted(t) ==
    /\ tasks[t].pc = "cu_resume"
    /\ CommitCreateUser(tasks[t].rid, tasks[t].name, tasks[t].bytes, tasks[t].expiry)
    /\ Return(t, IF tasks[t].resp THEN "Ok" ELSE "RemoteError", NoRow)
    /\ UNCHANGED <<now, gateway, outbox, panel>>
    /\ UNCHANGED dialogue

\* create_user from the return of the await to its own return
CreateUserResume(t) ==
    /\ tasks[t].pc = "cu_resume"
    /\ IF tasks[t].resp
       THEN /\ CommitCreateUser(tasks[t].rid, tasks[t].name, tasks[t].bytes, tasks[t].expiry)
            /\ Return(t, "Ok", NoRow)
       ELSE /\ Return(t, "RemoteError", NoRow)
            /\ UNCHANGED store
    /\ UNCHANGED <<now, gateway, outbox, panel>>
    /\ UNCHANGED dialogue

\* ---------------------------------------------------------------- the panel
\* MarzbanAPI.get_user_info: the panel answers the GET (status 200) with the
\* account's used_traffic
PanelGetUserOk(t) ==
    /\ tasks[t].pc \in {"gri_await", "gui_await"}
    /\ tasks[t].name \in DOMAIN panel
    /\ Goto(t, [tasks[t] EXCEPT
                   !.pc = IF @ = "gri_await" THEN "gri_resume" ELSE "gui_resume",
                   !.resp = TRUE,
                   !.traffic = panel[tasks[t].name].used_traffic])
    /\ UNCHANGED <<now, gateway, outbox, store, panel>>
    /\ UNCHANGED dialogue

\* MarzbanAPI.get_user_info: login fails, the status is not 200, or requests raises
PanelGetUserFail(t) ==
    /\ tasks[t].pc \in {"gri_await", "gui_await"}
    /\ Goto(t, [tasks[t] EXCEPT
                   !.pc = IF @ = "gri_await" THEN "gri_resume" ELSE "gui_resume",
                   !.resp = FALSE])
    /\ UNCHANGED <<now, gateway, outbox, store, panel>>
    /\ UNCHANGED dialogue

\* the panel meters one more unit of traffic on an account
PanelTraffic(u) ==
    /\ u \in DOMAIN panel
    /\ panel[u].used_traffic < MaxTraffic
    /\ panel' = [panel EXCEPT ![u].used_traffic = @ + 1]
    /\ UNCHANGED <<now, gateway, outbox, store, tasks>>
    /\ UNCHANGED dialogue

\* a day passes
Tick ==
    /\ now < MaxNow
    /\ now' = now + 1
    /\ UNCHANGED <<gateway, outbox, store, panel, tasks>>
    /\ UNCHANGED dialogue

\* --------------------------------------- ResellerManager.get_reseller_info
\* a refresh that adds the reported traffic to the stored usage
ResellersAfterRefreshAdded(rs, rid, traffic) ==
    [r \in DOMAIN rs |->
        IF r = rid THEN [rs[r] EXCEPT !.bandwidth_used = @ + traffic] ELSE rs[r]]

\* UPDATE resellers SET bandwidth_used = ? WHERE reseller_id = ?
ResellersAfterRefresh(rs, rid, traffic) ==
    [r \in DOMAIN rs |-> IF r = rid THEN [rs[r] EXCEPT !.bandwidth_used = traffic] ELSE rs[r]]

\* ---------------------------------- ResellerManager.update_reseller_limits
\* new_bandwidth = reseller["bandwidth"]["limit_bytes"] + (add_bandwidth_gb * 1024**3)
NewBandwidth(row, add_bandwidth_gb) == row.bandwidth_limit + add_bandwidth_gb * GiB

\* an extension that would restart the clock: datetime.now() + timedelta(days=add_days)
NewExpiryFromNow(row, add_days) == now + add_days

\* new_expiry = (fromisoformat(reseller["subscription"]["expiry_date"])
\*               + timedelta(days=add_days)).isoformat()
NewExpiry(row, add_days) == row.expiry_date + add_days

\* an extension that leaves the user cap as it is
NewMaxUsersKept(row, add_users) == row.max_users

\* new_max_users = reseller["users"]["max"] + add_users
NewMaxUsers(row, add_users) == row.max_users + add_users

\* UPDATE resellers SET bandwidth_limit = ?, expiry_date = ?, max_users = ?
\* WHERE reseller_id = ?
ResellersAfterUpdate(rs, rid, new_bandwidth, new_expiry, new_max_users) ==
    [r \in DOMAIN rs |->
        IF r = rid
        THEN [rs[r] EXCEPT !.bandwidth_limit = new_bandwidth,
                           !.expiry_date = new_expiry,
                           !.max_users = new_max_users]
        ELSE rs[r]]

\* the UPDATE and conn.commit() of update_reseller_limits, from the frame of t
CommitUpdateLimits(t, rid, row) ==
    resellers' = ResellersAfterUpdate(resellers, rid,
                                      NewBandwidth(row, tasks[t].add_bandwidth_gb),
                                      NewExpiry(row, tasks[t].add_days),
                                      NewMaxUsers(row, tasks[t].add_users))

\* another connection holds the write lock of the database: a create_reseller that
\* has written its users row and is suspended before its commit. A write of task
\* t then waits for sqlite3's timeout, the event loop standing still, and raises
\* OperationalError (database is locked)
WriteLocked(t) ==
    \E s \in Tasks \ {t} :
        tasks[s].pc \in {"cr_await", "cr_resume"} /\ tasks[s].pending # <<>>

\* a caller invokes get_reseller_info(reseller_id = rid)
CallGetResellerInfo(t, rid) ==
    /\ Free(t)
    /\ Goto(t, [IdleTask EXCEPT
                   !.pc = "get_reseller_info", !.op = "get_reseller_info", !.key = rid,
                   !.prev = PrevRefresh(t, "get_reseller_info", rid,
                                        IF rid \in DOMAIN resellers
                                        THEN resellers[rid].bandwidth_used ELSE 0)])
    /\ UNCHANGED <<now, gateway, outbox, store, panel>>
    /\ UNCHANGED dialogue

\* a caller invokes update_reseller_limits(reseller_id = rid, add_bandwidth_gb = ab,
\* add_days = ad, add_users = au); the guard keeps the limits within the bounds
CallUpdateResellerLimits(t, rid, ab, ad, au) ==
    /\ Free(t)
    /\ rid \in DOMAIN resellers =>
          /\ resellers[rid].bandwidth_limit + ab * GiB \in 0..(MaxLimitGB * GiB)
          /\ resellers[rid].expiry_date + ad \in 0..MaxExpiry
          /\ resellers[rid].max_users + au \in 0..MaxMaxUsers
    /\ Goto(t, [IdleTask EXCEPT !.pc = "update_reseller_limits",
                                !.op = "update_reseller_limits", !.key = rid,
                                !.add_bandwidth_gb = ab, !.add_days = ad,
                                !.add_users = au])
    /\ UNCHANGED <<now, gateway, outbox, store, panel>>
    /\ UNCHANGED dialogue

\* get_reseller_info from the SELECT to the await on marzban_api.get_user_info; with
\* no API it returns, and update_reseller_limits goes on to its UPDATE and returns
GetResellerInfoSelect(t) ==
    /\ tasks[t].pc \in {"get_reseller_info", "update_reseller_limits"}
    /\ LET rid == tasks[t].key IN
       IF rid \notin DOMAIN resellers
       THEN /\ Return(t, "NotFound", NoRow)
            /\ UNCHANGED resellers
       ELSE LET row == [bandwidth_limit |-> resellers[rid].bandwidth_limit,
                        expiry_date |-> resellers[rid].expiry_date,
                        max_users |-> resellers[rid].max_users]
            IN  IF api
                THEN /\ Goto(t, [tasks[t] EXCEPT !.pc = "gri_await", !.rid = rid,
                                                 !.row = row,
                                                 !.name = resellers[rid].marzban_username])
                     /\ UNCHANGED resellers
                ELSE IF tasks[t].op = "update_reseller_limits"
                THEN /\ CommitUpdateLimits(t, rid, row)
                     /\ Return(t, "Ok", row)
                ELSE /\ UNCHANGED resellers
                     /\ Return(t, "Ok", NoRow)
    /\ UNCHANGED <<now, gateway, outbox, end_users, usage_log, notifications, users, admins, panel>>
    /\ UNCHANGED dialogue

\* get_reseller_info from the return of the await to its own return; its caller
\* update_reseller_limits goes on to the await on marzban_api.update_user. An
\* UPDATE that raises is caught, and both return the failure
GetResellerInfoResume(t) ==
    /\ tasks[t].pc = "gri_resume"
    /\ IF tasks[t].resp /\ WriteLocked(t)
       THEN /\ UNCHANGED resellers
            /\ Return(t, "StoreError", NoRow)
       ELSE /\ resellers' = IF tasks[t].resp
                            THEN ResellersAfterRefresh(resellers, tasks[t].rid,
                                                       tasks[t].traffic)
                            ELSE resellers
            /\ IF tasks[t].op = "update_reseller_limits"
               THEN Goto(t, [tasks[t] EXCEPT !.pc = "url_await", !.resp = FALSE,
                                             !.traffic = 0])
               ELSE ReturnRefresh(t)
    /\ UNCHANGED <<now, gateway, outbox, end_users, usage_log, notifications, users, admins, panel>>
    /\ UNCHANGED dialogue

\* MarzbanAPI.update_user: the panel accepts the PUT (status 200)
PanelUpdateUserOk(t) ==
    /\ tasks[t].pc = "url_await"
    /\ tasks[t].name \in DOMAIN panel
    /\ panel' = [panel EXCEPT
                    ![tasks[t].name].data_limit =
                        NewBandwidth(tasks[t].row, tasks[t].add_bandwidth_gb),
                    ![tasks[t].name].expire = NewExpiry(tasks[t].row, tasks[t].add_days)]
    /\ Goto(t, [tasks[t] EXCEPT !.pc = "url_resume", !.resp = TRUE])
    /\ UNCHANGED <<now, gateway, outbox, store>>
    /\ UNCHANGED dialogue

\* MarzbanAPI.update_user: login fails, the status is not 200, or requests raises
PanelUpdateUserFail(t) ==
    /\ tasks[t].pc = "url_await"
    /\ Goto(t, [tasks[t] EXCEPT !.pc = "url_resume", !.resp = FALSE])
    /\ UNCHANGED <<now, gateway, outbox, store, panel>>
    /\ UNCHANGED dialogue

\* a remote result that is not looked at: the local UPDATE runs either way
RemoteUpdateIgnored(t) == TRUE

\* success, result = await self.marzban_api.update_user(...); if not success: return
RemoteUpdateOk(t) == tasks[t].resp

\* update_reseller_limits from the return of the await to its own return; an
\* UPDATE that raises is caught and the failure returned, the panel keeping what
\* update_user has written
UpdateLimitsResume(t) ==
    /\ tasks[t].pc = "url_resume"
    /\ IF RemoteUpdateOk(t)
       THEN IF WriteLocked(t)
            THEN /\ Return(t, "StoreError", NoRow)
                 /\ UNCHANGED resellers
            ELSE /\ CommitUpdateLimits(t, tasks[t].rid, tasks[t].row)
                 /\ Return(t, "Ok", tasks[t].row)
       ELSE /\ Return(t, "RemoteError", NoRow)
            /\ UNCHANGED resellers
    /\ UNCHANGED <<now, gateway, outbox, end_users, usage_log, notifications, users, admins, panel>>
    /\ UNCHANGED dialogue

\* ----------------------------------------------- UserManager.get_user_info
\* the UPDATE of get_user_info without its WHERE clause: every end-user is refreshed
EndUsersAfterRefreshEveryRow(eu, uid, traffic) ==
    [i \in DOMAIN eu |-> [eu[i] EXCEPT !.bandwidth_used = traffic]]

\* UPDATE end_users SET bandwidth_used = ? WHERE user_id = ?
EndUsersAfterRefresh(eu, uid, traffic) ==
    [i \in DOMAIN eu |-> IF i = uid THEN [eu[i] EXCEPT !.bandwidth_used = traffic] ELSE eu[i]]

\* a caller invokes get_user_info(user_id = uid)
CallGetUserInfo(t, uid) ==
    /\ Free(t)
    /\ Goto(t, [IdleTask EXCEPT
                   !.pc = "get_user_info", !.op = "get_user_info", !.key = uid,
                   !.prev = PrevRefresh(t, "get_user_info", uid,
                                        IF uid \in DOMAIN end_users
                                        THEN end_users[uid].bandwidth_used ELSE 0)])
    /\ UNCHANGED <<now, gateway, outbox, store, panel>>
    /\ UNCHANGED dialogue

\* get_user_info from the SELECT to the await on marzban_api.get_user_info
GetUserInfoSelect(t) ==
    /\ tasks[t].pc = "get_user_info"
    /\ LET uid == tasks[t].key IN
       IF uid \notin DOMAIN end_users
       THEN Return(t, "NotFound", NoRow)
       ELSE IF api
            THEN Goto(t, [tasks[t] EXCEPT !.pc = "gui_await", !.uid = uid,
                                          !.name = end_users[uid].marzban_username])
            ELSE Return(t, "Ok", NoRow)
    /\ UNCHANGED <<now, gateway, outbox, store, panel>>
    /\ UNCHANGED dialogue

\* a get_user_info that writes the traffic of the answer whether the panel has
\* answered or not: a refresh that fails stores no traffic at all
GetUserInfoResumeUnchecked(t) ==
    /\ tasks[t].pc = "gui_resume"
    /\ end_users' = EndUsersAfterRefresh(end_users, tasks[t].uid,
                                         IF tasks[t].resp THEN tasks[t].traffic ELSE 0)
    /\ ReturnRefresh(t)
    /\ UNCHANGED <<now, gateway, outbox, resellers, usage_log, notifications, users, admins, panel>>
    /\ UNCHANGED dialogue

\* get_user_info from the return of the await to its own return
GetUserInfoResume(t) ==
    /\ tasks[t].pc = "gui_resume"
    /\ end_users' = IF tasks[t].resp
                    THEN EndUsersAfterRefresh(end_users, tasks[t].uid, tasks[t].traffic)
                    ELSE end_users
    /\ ReturnRefresh(t)
    /\ UNCHANGED <<now, gateway, outbox, resellers, usage_log, notifications, users, admins, panel>>
    /\ UNCHANGED dialogue

\* ------------------------------------------------------- the list operations
\* LIMIT ? OFFSET ? with (page_size, page * page_size) on the rows ids, in rowid order
PageOf(ids, page, page_size) ==
    SubSeq(ids, page * page_size + 1,
           IF page * page_size + page_size < Len(ids)
           THEN page * page_size + page_size ELSE Len(ids))

\* SELECT user_id ... FROM end_users WHERE reseller_id = ?
UsersOf(rid) ==
    LET Owned(i) == end_users[i].reseller_id = rid
    IN  SelectSeq([i \in 1..Len(end_users) |-> i], Owned)

\* a page count with no special case for an empty table
TotalPagesUsersPlain(total_count, page_size) == (total_count + page_size - 1) \div page_size

\* total_pages = (total_count + page_size - 1) // page_size if total_count > 0 else 1
TotalPagesUsers(total_count, page_size) ==
    IF total_count > 0 THEN (total_count + page_size - 1) \div page_size ELSE 1

\* total_pages = (total_count + page_size - 1) // page_size
TotalPagesResellers(total_count, page_size) == (total_count + page_size - 1) \div page_size

\* list_users_for_reseller(reseller_telegram_id = tg, page, page_size), from the
\* call to the return (it awaits nothing): (True, users, total_pages), or
\* (False, message, 0) for an unknown reseller
ListUsersForReseller(t, tg, page, page_size) ==
    /\ Free(t)
    /\ LET found == ResellersByTelegram(tg)
           listed == IF found = {} THEN <<>> ELSE UsersOf(Min(found))
       IN  tasks' = [tasks EXCEPT ![t] =
                        [IdleTask EXCEPT
                            !.pc = "done", !.op = "list_users_for_reseller", !.at = now,
                            !.key = tg, !.page = page, !.page_size = page_size,
                            !.result = IF found = {} THEN "NotReseller" ELSE "Ok",
                            !.total_pages = IF found = {} THEN 0
                                            ELSE TotalPagesUsers(Len(listed), page_size),
                            !.items = PageOf(listed, page, page_size)]]
    /\ UNCHANGED <<now, gateway, outbox, store, panel>>
    /\ UNCHANGED dialogue

\* list_resellers(page, page_size), from the call to the return (it awaits
\* nothing): (True, resellers, total_pages)
ListResellers(t, page, page_size) ==
    /\ Free(t)
    /\ LET ids == [i \in 1..Cardinality(DOMAIN resellers) |-> i]
       IN  tasks' = [tasks EXCEPT ![t] =
                        [IdleTask EXCEPT
                            !.pc = "done", !.op = "list_resellers", !.at = now,
                            !.page = page, !.page_size = page_size,
                            !.result = "Ok",
                            !.total_pages = TotalPagesResellers(Len(ids), page_size),
                            !.items = PageOf(ids, page, page_size)]]
    /\ UNCHANGED <<now, gateway, outbox, store, panel>>
    /\ UNCHANGED dialogue

\* ------------------------------------------------------ AdminLimitsManager
\* default_limits of get_admin_limits
DefaultLimits ==
    [max_bandwidth_gb |-> 0, max_users |-> 0, max_days |-> 0,
     used_bandwidth_gb |-> 0, created_users |-> 0, expiry_date |-> None]

\* d[k] = v on a dict
Put(d, k, v) == [x \in DOMAIN d \cup {k} |-> IF x = k THEN v ELSE d[x]]

\* get_admin_limits: the stored object with the defaults merged in
MergedLimits(limits) ==
    [k \in DOMAIN limits \cup DOMAIN DefaultLimits |->
        IF k \in DOMAIN limits THEN limits[k] ELSE DefaultLimits[k]]

\* a set_admin_limits that builds the object anew from its arguments
LimitsAfterSetAnew(current, max_bandwidth, max_users, max_days) ==
    LET l1 == IF max_bandwidth # None
              THEN Put(EmptyLimits, "max_bandwidth_gb", max_bandwidth) ELSE EmptyLimits
        l2 == IF max_users # None THEN Put(l1, "max_users", max_users) ELSE l1
        l3 == IF max_days # None THEN Put(l2, "max_days", max_days) ELSE l2
    IN  IF max_days # None THEN Put(l3, "expiry_date", now + max_days) ELSE l3

\* set_admin_limits: the object it writes back
LimitsAfterSet(current, max_bandwidth, max_users, max_days) ==
    LET l1 == IF max_bandwidth # None
              THEN Put(current, "max_bandwidth_gb", max_bandwidth) ELSE current
        l2 == IF max_users # None THEN Put(l1, "max_users", max_users) ELSE l1
        l3 == IF max_days # None THEN Put(l2, "max_days", max_days) ELSE l2
    IN  IF max_days # None THEN Put(l3, "expiry_date", now + max_days) ELSE l3

\* an update_admin_usage that stores the amounts it is given in place of the sums
LimitsAfterUsageReplaced(limits, bandwidth_used, users_created) ==
    LET l1 == IF bandwidth_used # None
              THEN Put(limits, "used_bandwidth_gb", bandwidth_used) ELSE limits
    IN  IF users_created # None THEN Put(l1, "created_users", users_created) ELSE l1

\* update_admin_usage: the object it writes back
LimitsAfterUsage(limits, bandwidth_used, users_created) ==
    LET l1 == IF bandwidth_used # None
              THEN Put(limits, "used_bandwidth_gb", limits["used_bandwidth_gb"] + bandwidth_used)
              ELSE limits
    IN  IF users_created # None
        THEN Put(l1, "created_users", l1["created_users"] + users_created)
        ELSE l1

\* a caller invokes set_admin_limits(admin_username = a, max_bandwidth = mb,
\* max_users = mu, max_days = md)
CallSetAdminLimits(t, a, mb, mu, md) ==
    /\ Free(t)
    /\ Goto(t, [IdleTask EXCEPT !.pc = "set_admin_limits", !.op = "set_admin_limits",
                                !.admin = a, !.max_bandwidth = mb, !.max_users = mu,
                                !.max_days = md])
    /\ UNCHANGED <<now, gateway, outbox, store, panel>>
    /\ UNCHANGED dialogue

\* set_admin_limits, from its SELECT to its return (it awaits nothing)
SetAdminLimits(t) ==
    /\ tasks[t].pc = "set_admin_limits"
    /\ IF tasks[t].admin \notin DOMAIN admins
       THEN /\ Return(t, "NotFound", NoRow)
            /\ UNCHANGED admins
       ELSE /\ admins' = [admins EXCEPT ![tasks[t].admin] =
                             LimitsAfterSet(admins[tasks[t].admin], tasks[t].max_bandwidth,
                                            tasks[t].max_users, tasks[t].max_days)]
            /\ Return(t, "Ok", NoRow)
    /\ UNCHANGED <<now, gateway, outbox, resellers, end_users, usage_log, notifications, users,
                   panel>>
    /\ UNCHANGED dialogue

\* a caller invokes update_admin_usage(admin_username = a, bandwidth_used = bw,
\* users_created = uc); the guard keeps the usage within the bounds
CallUpdateAdminUsage(t, a, bw, uc) ==
    /\ Free(t)
    /\ a \in DOMAIN admins =>
          LET new == LimitsAfterUsage(MergedLimits(admins[a]), bw, uc)
          IN  /\ new["used_bandwidth_gb"] <= MaxAdminGB
              /\ new["created_users"] <= MaxAdminUsers
    /\ Goto(t, [IdleTask EXCEPT !.pc = "update_admin_usage", !.op = "update_admin_usage",
                                !.admin = a, !.bandwidth_used = bw, !.users_created = uc])
    /\ UNCHANGED <<now, gateway, outbox, store, panel>>
    /\ UNCHANGED dialogue

\* update_admin_usage, from its call of get_admin_limits (which never suspends) to
\* its return
UpdateAdminUsage(t) ==
    /\ tasks[t].pc = "update_admin_usage"
    /\ IF tasks[t].admin \notin DOMAIN admins
       THEN /\ Return(t, "NotFound", NoRow)
            /\ UNCHANGED admins
       ELSE /\ admins' = [admins EXCEPT ![tasks[t].admin] =
                             LimitsAfterUsage(MergedLimits(admins[tasks[t].admin]),
                                              tasks[t].bandwidth_used,
                                              tasks[t].users_created)]
            /\ Return(t, "Ok", NoRow)
    /\ UNCHANGED <<now, gateway, outbox, resellers, end_users, usage_log, notifications, users,
                   panel>>
    /\ UNCHANGED dialogue

\* a caller invokes get_admin_limits(admin_username = a)
CallGetAdminLimits(t, a) ==
    /\ Free(t)
    /\ Goto(t, [IdleTask EXCEPT !.pc = "get_admin_limits", !.op = "get_admin_limits",
                                !.admin = a])
    /\ UNCHANGED <<now, gateway, outbox, store, panel>>
    /\ UNCHANGED dialogue

\* the frame of task t after get_admin_limits has returned: (True, limits) with the
\* defaults merged in, or (False, message)
GotAdminLimits(t) ==
    [IdleTask EXCEPT
        !.pc = "done", !.op = "get_admin_limits", !.at = now,
        !.admin = tasks[t].admin,
        !.result = IF tasks[t].admin \in DOMAIN admins THEN "Ok" ELSE "NotFound",
        !.limits = IF tasks[t].admin \in DOMAIN admins
                   THEN MergedLimits(admins[tasks[t].admin]) ELSE <<>>]

\* a get_admin_limits that stores the merged dictionary it returns
GetAdminLimitsWriteBack(t) ==
    /\ tasks[t].pc = "get_admin_limits"
    /\ tasks' = [tasks EXCEPT ![t] = GotAdminLimits(t)]
    /\ admins' = IF tasks[t].admin \in DOMAIN admins
                 THEN [admins EXCEPT ![tasks[t].admin] = MergedLimits(@)]
                 ELSE admins
    /\ UNCHANGED <<now, gateway, outbox, resellers, end_users, usage_log, notifications, users,
                   panel>>
    /\ UNCHANGED dialogue

\* get_admin_limits, from its SELECT to its return
GetAdminLimits(t) ==
    /\ tasks[t].pc = "get_admin_limits"
    /\ tasks' = [tasks EXCEPT ![t] = GotAdminLimits(t)]
    /\ UNCHANGED <<now, gateway, outbox, store, panel>>
    /\ UNCHANGED dialogue

\* if limits.get('max_bandwidth_gb', 0) > 0:
\*     if limits.get('used_bandwidth_gb', 0) >= limits.get('max_bandwidth_gb', 0):
BandwidthExhausted(limits) ==
    limits["max_bandwidth_gb"] > 0
        /\ limits["used_bandwidth_gb"] >= limits["max_bandwidth_gb"]

\* if limits.get('max_users', 0) > 0:
\*     if limits.get('created_users', 0) >= limits.get('max_users', 0):
UsersExhausted(limits) ==
    limits["max_users"] > 0 /\ limits["created_users"] >= limits["max_users"]

\* if limits.get('expiry_date'): ... if datetime.now() > expiry_date:
Expired(limits) == limits["expiry_date"] # None /\ now > limits["expiry_date"]

\* a check that reports the first reason it finds and stops
LimitMessagesFirstOnly(limits) ==
    IF BandwidthExhausted(limits) THEN <<"bandwidth">>
    ELSE IF UsersExhausted(limits) THEN <<"users">>
    ELSE IF Expired(limits) THEN <<"expired">>
    ELSE <<>>

\* limit_messages of check_admin_limits: one append per test that fires, in the
\* order of the tests
LimitMessages(limits) ==
    (IF BandwidthExhausted(limits) THEN <<"bandwidth">> ELSE <<>>)
        \o (IF UsersExhausted(limits) THEN <<"users">> ELSE <<>>)
        \o (IF Expired(limits) THEN <<"expired">> ELSE <<>>)

\* is_limited of check_admin_limits: set to True in each test that fires
IsLimited(limits) ==
    BandwidthExhausted(limits) \/ UsersExhausted(limits) \/ Expired(limits)

\* a caller invokes check_admin_limits(admin_username = a)
CallCheckAdminLimits(t, a) ==
    /\ Free(t)
    /\ Goto(t, [IdleTask EXCEPT !.pc = "check_admin_limits", !.op = "check_admin_limits",
                                !.admin = a])
    /\ UNCHANGED <<now, gateway, outbox, store, panel>>
    /\ UNCHANGED dialogue

\* check_admin_limits, from its call of get_admin_limits to its return:
\* (is_limited, limit_messages), or (True, [message]) for an unknown admin
CheckAdminLimits(t) ==
    /\ tasks[t].pc = "check_admin_limits"
    /\ LET known == tasks[t].admin \in DOMAIN admins
           limits == IF known THEN MergedLimits(admins[tasks[t].admin]) ELSE DefaultLimits
       IN  tasks' = [tasks EXCEPT ![t] =
                        [IdleTask EXCEPT
                            !.pc = "done", !.op = "check_admin_limits", !.at = now,
                            !.admin = tasks[t].admin,
                            !.result = IF known THEN "Ok" ELSE "NotFound",
                            !.is_limited = IF known THEN IsLimited(limits) ELSE TRUE,
                            !.limit_messages = IF known THEN LimitMessages(limits)
                                               ELSE <<"not_found">>]]
    /\ UNCHANGED <<now, gateway, outbox, store, panel>>
    /\ UNCHANGED dialogue

\* ---------------------------------------------------------------- inputs
\* (add_bandwidth_gb, add_days, add_users) of the update_reseller_limits calls
UpdateArgs == {<<1, 0, 0>>, <<0, 1, 1>>, <<0, 0, -1>>}
AdminArgs == {"admin1", "nobody"}
AdminLimitArgs == {None, 0, 1}
AdminDaysArgs == {None, 1, 2}
AdminUsageArgs == {None, 1}
\* the task that calls get_reseller_info, update_reseller_limits and the admin
\* operations where one caller makes them
Extenders == {"t1"}

CreateUser(t) ==
    \/ \E tg \in {TelegramOf(r) : r \in Called} \cup {UnknownId}, gb \in UserBandwidthGB :
          CallCreateUser(t, tg, gb)
    \/ CreateUserCheck(t)
    \/ PanelCreateUserOk(t)
    \/ PanelCreateUserFail(t)
    \/ CreateUserResume(t)

GetResellerInfo(t) ==
    \/ \E rid \in Called \cup {UnknownId} : CallGetResellerInfo(t, rid)
    \/ GetResellerInfoSelect(t)
    \/ PanelGetUserOk(t)
    \/ PanelGetUserFail(t)
    \/ GetResellerInfoResume(t)

UpdateResellerLimits(t) ==
    \/ \E rid \in Called \cup {UnknownId}, a \in UpdateArgs :
          CallUpdateResellerLimits(t, rid, a[1], a[2], a[3])
    \/ PanelUpdateUserOk(t)
    \/ PanelUpdateUserFail(t)
    \/ UpdateLimitsResume(t)

GetUserInfo(t) ==
    \/ \E uid \in 1..MaxEndUsers : CallGetUserInfo(t, uid)
    \/ GetUserInfoSelect(t)
    \/ GetUserInfoResume(t)

AdminLimits(t) ==
    \/ \E a \in AdminArgs, mb \in AdminLimitArgs, mu \in AdminLimitArgs, md \in AdminDaysArgs :
          CallSetAdminLimits(t, a, mb, mu, md)
    \/ SetAdminLimits(t)
    \/ \E a \in AdminArgs, bw \in AdminUsageArgs, uc \in AdminUsageArgs :
          CallUpdateAdminUsage(t, a, bw, uc)
    \/ UpdateAdminUsage(t)

Lists(t) ==
    \/ \E tg \in {TelegramOf(r) : r \in Called} \cup {UnknownId},
          page \in 0..MaxPage, page_size \in 1..MaxPageSize :
          ListUsersForReseller(t, tg, page, page_size)
    \/ \E page \in 0..MaxPage, page_size \in 1..MaxPageSize :
          ListResellers(t, page, page_size)

AdminReads(t) ==
    \/ \E a \in AdminArgs : CallGetAdminLimits(t, a)
    \/ GetAdminLimits(t)
    \/ \E a \in AdminArgs : CallCheckAdminLimits(t, a)
    \/ CheckAdminLimits(t)

\* ------------------------------------- UserManager.check_and_notify_users
\* 322122547200 bytes, the remaining bandwidth from which on a warning is due
WarnRemaining == 300 * GiB

\* datetime.now().isoformat() on day d: 'YYYY-MM-DDTHH:MM:SS.ffffff'. The clock
\* counts whole days, so every text carries the same time of day, and two texts
\* differ in their date or in the character after it
IsoFormat(d) == [date |-> d, sep |-> "T"]

\* SQLite's datetime('now', '-N days') on day d + N: 'YYYY-MM-DD HH:MM:SS'
SqliteDatetime(d) == [date |-> d, sep |-> " "]

\* the code point of the character after the date
Ord(c) == IF c = "T" THEN 84 ELSE 32

\* a > b for two TEXT values of SQLite (their bytes compared from the left): the
\* dates, of one width, compare as the days do; on one date the character after
\* it decides (the two texts compared here never have the same one)
TextGreater(a, b) ==
    \/ a.date > b.date
    \/ a.date = b.date /\ Ord(a.sep) > Ord(b.sep)

\* (user_id, ?, datetime.now().isoformat()), the row INSERT INTO notifications adds
NotificationRow(uid, type) ==
    [user_id |-> uid, notification_type |-> type, sent_at |-> IsoFormat(now)]

\* SELECT user_id FROM notifications WHERE notification_type = ?
\*    AND sent_at > datetime('now', '-? days'), on the rows ns the connection sees
RecentlyNotified(ns, type, days) ==
    {ns[k].user_id : k \in {j \in DOMAIN ns :
                              /\ ns[j].notification_type = type
                              /\ TextGreater(ns[j].sent_at, SqliteDatetime(now - days))}}

\* u.bandwidth_limit - u.bandwidth_used
Remaining(u) == u.bandwidth_limit - u.bandwidth_used

\* the user ids of end_users, in the order of the table
UserIds == [i \in 1..Len(end_users) |-> i]

\* JOIN resellers r ON u.reseller_id = r.reseller_id
JoinsReseller(i) == end_users[i].reseller_id \in DOMAIN resellers

\* the first SELECT: the end-users due a bandwidth warning
BandwidthWarnings(ns) ==
    LET Due(i) == /\ JoinsReseller(i)
                  /\ Remaining(end_users[i]) <= WarnRemaining
                  /\ Remaining(end_users[i]) > 0
                  /\ i \notin RecentlyNotified(ns, "bandwidth_warning", BandwidthWarningDays)
    IN  SelectSeq(UserIds, Due)

\* the second SELECT: the end-users due an expiry warning
ExpiryWarnings(ns) ==
    LET Due(i) == /\ JoinsReseller(i)
                  /\ end_users[i].expiry_date - now <= ExpirySoonDays
                  /\ end_users[i].expiry_date - now > 0
                  /\ i \notin RecentlyNotified(ns, "expiry_warning", ExpiryWarningDays)
    IN  SelectSeq(UserIds, Due)

\* the frame of the sweep of task t suspended in bot.send_message, in the loop pc:
\* called is the day the sweep was called, todo are the fetched users not yet
\* handled (the first is the one being sent), pending the rows inserted and not
\* committed, bw the users the first SELECT chose, and ew those the second SELECT
\* chose, once the sweep has come to it (expiry_selected)
SweepFrame(pc, called, todo, pending, bw, ew) ==
    [IdleTask EXCEPT !.pc = pc, !.op = "check_and_notify_users", !.at = called,
                     !.todo = todo, !.pending = pending, !.bandwidth_warnings = bw,
                     !.expiry_warnings = ew,
                     !.expiry_selected = (pc = "send_expiry_warning")]

\* the frame of check_notifications after check_and_notify_users has returned
\* None (res tells by which way): it is in asyncio.sleep(notification_interval)
SweepReturned(res, bw, ew, es) ==
    [IdleTask EXCEPT !.pc = "done", !.op = "check_and_notify_users",
                     !.result = res, !.at = now, !.wait = NotificationInterval,
                     !.bandwidth_warnings = bw, !.expiry_warnings = ew,
                     !.expiry_selected = es]

\* conn.commit(), conn.close() and the return
SweepCommit(t, pending, bw, ew) ==
    /\ notifications' = notifications \o pending
    /\ Goto(t, SweepReturned("Ok", bw, ew, TRUE))

\* the loop over expiry_warnings with todo left to handle
ExpiryLoop(t, called, todo, pending, bw, ew) ==
    IF todo # <<>>
    THEN /\ Goto(t, SweepFrame("send_expiry_warning", called, todo, pending, bw, ew))
         /\ UNCHANGED notifications
    ELSE SweepCommit(t, pending, bw, ew)

\* the second SELECT, which sees the rows the connection has inserted, and the
\* loop over what it fetched
ExpirySweep(t, called, pending, bw) ==
    LET ew == ExpiryWarnings(notifications \o pending)
    IN  ExpiryLoop(t, called, ew, pending, bw, ew)

\* the loop over bandwidth_warnings with todo left to handle, and after it the
\* expiry sweep
BandwidthLoop(t, called, todo, pending, bw) ==
    IF todo # <<>>
    THEN /\ Goto(t, SweepFrame("send_bandwidth_warning", called, todo, pending, bw, <<>>))
         /\ UNCHANGED notifications
    ELSE ExpirySweep(t, called, pending, bw)

\* check_and_notify_users up to its first send_message, or to its return if no
\* user is due a warning. The UserManager is the one check_notifications builds,
\* with the bot.
CallCheckAndNotifyUsers(t) ==
    /\ Free(t)
    /\ Len(outbox) < MaxAlerts
    /\ LET bw == BandwidthWarnings(notifications)
       IN  BandwidthLoop(t, now, bw, <<>>, bw)
    /\ UNCHANGED <<now, gateway, outbox, users, resellers, end_users, usage_log, admins, panel>>
    /\ UNCHANGED dialogue

InSendMessage(t) ==
    /\ tasks[t].op = "check_and_notify_users"
    /\ tasks[t].pc \in {"send_bandwidth_warning", "send_expiry_warning"}

\* the message bot.send_message delivers to the reseller of end-user uid, with
\* the day the sweep that sends it was called and the day it is delivered
Alert(uid, type, called) ==
    [chat_id |-> resellers[end_users[uid].reseller_id].telegram_id,
     user_id |-> uid, notification_type |-> type, run |-> called, at |-> now]

\* bot.send_message delivers the message; the sweep inserts the notifications row
\* and goes on to the next send_message, or to the commit
SendMessageOk(t) ==
    /\ InSendMessage(t)
    /\ LET f == tasks[t]
           uid == Head(f.todo)
           type == IF f.pc = "send_bandwidth_warning"
                   THEN "bandwidth_warning" ELSE "expiry_warning"
           pending == Append(f.pending, NotificationRow(uid, type))
       IN  /\ outbox' = Append(outbox, Alert(uid, type, f.at))
           /\ IF f.pc = "send_bandwidth_warning"
              THEN BandwidthLoop(t, f.at, Tail(f.todo), pending, f.bandwidth_warnings)
              ELSE ExpiryLoop(t, f.at, Tail(f.todo), pending, f.bandwidth_warnings,
                              f.expiry_warnings)
    /\ UNCHANGED <<now, gateway, users, resellers, end_users, usage_log, admins, panel>>
    /\ UNCHANGED dialogue

\* bot.send_message raises (the reseller has blocked the bot, the request timed
\* out): except logs the error, finally closes the connection, and the rows
\* inserted since the connection was opened are rolled back;
\* check_and_notify_users returns None to check_notifications
SendMessageRaises(t) ==
    /\ InSendMessage(t)
    /\ Goto(t, SweepReturned("Error", tasks[t].bandwidth_warnings,
                             tasks[t].expiry_warnings, tasks[t].expiry_selected))
    /\ UNCHANGED <<now, gateway, outbox, store, panel>>
    /\ UNCHANGED dialogue

\* sqlite3.connect, the first statement of check_and_notify_users and outside its
\* try, raises (the database file cannot be opened): the exception reaches the
\* except of check_notifications, which logs it and is in asyncio.sleep(300)
ConnectRaises(t) ==
    /\ Free(t)
    /\ Len(outbox) < MaxAlerts
    /\ Goto(t, [IdleTask EXCEPT !.pc = "done", !.op = "check_and_notify_users",
                                !.result = "Raised", !.at = now, !.wait = ErrorBackoff])
    /\ UNCHANGED <<now, gateway, outbox, store, panel>>
    /\ UNCHANGED dialogue

\* a day passes in the run of the notification loop
DayPasses ==
    /\ now < MaxSweepNow
    /\ now' = now + 1
    /\ UNCHANGED <<gateway, outbox, store, panel, tasks>>
    /\ UNCHANGED dialogue

CheckAndNotifyUsers(t) ==
    \/ CallCheckAndNotifyUsers(t)
    \/ SendMessageOk(t)
    \/ SendMessageRaises(t)
    \/ ConnectRaises(t)

\* ------------------------------ ReportingSystem.send_scheduled_reports
RECURSIVE Ascending(_)
\* the members of the set S of numbers, in ascending order
Ascending(S) == IF S = {} THEN <<>> ELSE <<Min(S)>> \o Ascending(S \ {Min(S)})

\* SELECT telegram_id FROM users WHERE role = 'superadmin'
SuperAdmins == Ascending({tg \in DOMAIN users : users[tg] = "superadmin"})

\* the frame of a cycle of send_scheduled_reports suspended in bot.send_message:
\* todo are the super admins not yet handled (the first is the one being sent to),
\* sa is the fetched list, delivered those the report has reached, failed whether
\* a send_message of the cycle has raised
ReportFrame(todo, sa, delivered, failed) ==
    [IdleTask EXCEPT !.pc = "send_report", !.op = "send_scheduled_reports", !.at = now,
                     !.todo = todo, !.super_admins = sa, !.delivered = delivered,
                     !.generated = TRUE, !.failed = failed]

\* the frame of send_scheduled_reports asleep after a cycle: res tells whether the
\* cycle came to the end of the try block ("Ok") or to except ("Raised"),
\* generated what generate_system_report returned as success
ReportCycleOver(res, wait, sa, delivered, generated, failed) ==
    [IdleTask EXCEPT !.pc = "done", !.op = "send_scheduled_reports", !.at = now,
                     !.result = res, !.wait = wait, !.super_admins = sa,
                     !.delivered = delivered, !.generated = generated,
                     !.failed = failed]

\* the loop over super_admins with todo left to handle, and asyncio.sleep(86400)
ReportLoop(t, todo, sa, delivered, failed) ==
    IF todo # <<>>
    THEN Goto(t, ReportFrame(todo, sa, delivered, failed))
    ELSE Goto(t, ReportCycleOver("Ok", ReportInterval, sa, delivered, TRUE, failed))

\* a cycle of send_scheduled_reports up to its first send_message, or to its sleep:
\* the SELECT of the super admins, and generate_system_report, which returns
\* (True, report), or (False, message) if one of its statements raised. The
\* ReportingSystem is the one main builds, with the bot.
CallReportCycle(t, success) ==
    /\ Free(t)
    /\ Len(outbox) < MaxAlerts
    /\ IF success
       THEN ReportLoop(t, SuperAdmins, SuperAdmins, <<>>, FALSE)
       ELSE Goto(t, ReportCycleOver("Ok", ReportInterval, SuperAdmins, <<>>, FALSE, FALSE))
    /\ UNCHANGED <<now, gateway, outbox, store, panel>>
    /\ UNCHANGED dialogue

\* sqlite3.connect or the SELECT of the super admins raises: the except of the
\* loop logs the error, and the loop is in asyncio.sleep(3600)
ReportSelectRaises(t) ==
    /\ Free(t)
    /\ Len(outbox) < MaxAlerts
    /\ Goto(t, ReportCycleOver("Raised", ReportBackoff, <<>>, <<>>, FALSE, FALSE))
    /\ UNCHANGED <<now, gateway, outbox, store, panel>>
    /\ UNCHANGED dialogue

InSendReport(t) ==
    /\ tasks[t].op = "send_scheduled_reports"
    /\ tasks[t].pc = "send_report"

\* bot.send_message delivers the report to the next super admin
ReportSendOk(t) ==
    /\ InSendReport(t)
    /\ LET f == tasks[t]
           admin_id == Head(f.todo)
       IN  /\ outbox' = Append(outbox, [chat_id |-> admin_id, user_id |-> 0,
                                        notification_type |-> "system_report",
                                        run |-> f.at, at |-> now])
           /\ ReportLoop(t, Tail(f.todo), f.super_admins, Append(f.delivered, admin_id),
                         f.failed)
    /\ UNCHANGED <<now, gateway, store, panel>>
    /\ UNCHANGED dialogue

\* bot.send_message raises: the inner except logs the error, and the loop goes on
\* with the next super admin
ReportSendRaises(t) ==
    /\ InSendReport(t)
    /\ ReportLoop(t, Tail(tasks[t].todo), tasks[t].super_admins, tasks[t].delivered, TRUE)
    /\ UNCHANGED <<now, gateway, outbox, store, panel>>
    /\ UNCHANGED dialogue

SendScheduledReports(t) ==
    \/ \E success \in BOOLEAN : CallReportCycle(t, success)
    \/ ReportSelectRaises(t)
    \/ ReportSendOk(t)
    \/ ReportSendRaises(t)

\* ------------------------------------------------------------ MarzbanAPI
ApiOps == {"create_user", "get_user_info", "update_user", "delete_user", "get_all_users"}

\* the panel accepts the bearer token k
Accepted(k) == k \in DOMAIN issued /\ issued[k]

\* response.status_code of the request of op on username name, sent with a token
\* the panel accepts (accepted) or not
StatusCode(op, name, accepted) ==
    IF ~accepted THEN 401
    ELSE IF op = "create_user" THEN (IF name \in DOMAIN panel THEN 409 ELSE 200)
    ELSE IF op = "get_all_users" THEN 200
    ELSE IF name \in DOMAIN panel THEN 200 ELSE 404

\* what the request of op on name does to the panel's accounts when it answers
\* 200: the data sent is a data_limit of one GiB on creation and of two on update
PanelAfter(op, name) ==
    IF op = "create_user"
    THEN [u \in DOMAIN panel \cup {name} |->
             IF u = name THEN [data_limit |-> GiB, expire |-> now + Days, used_traffic |-> 0]
                         ELSE panel[u]]
    ELSE IF op = "update_user" THEN [panel EXCEPT ![name].data_limit = 2 * GiB]
    ELSE IF op = "delete_user" THEN [u \in DOMAIN panel \ {name} |-> panel[u]]
    ELSE panel

\* one call of MarzbanAPI.<op>(name), from the call to the return (requests blocks,
\* the call awaits nothing but its own login): login() if self.token is not set,
\* then one request with the token held, and the return of (True, ...) for 200 and
\* of (False, message) for anything else. up tells whether the panel can be
\* reached (if not, requests raises, in login and in the request). The frame keeps
\* the status code (0 for none), the number of requests sent after the login, and
\* the number of logins made after a request was rejected.
MarzbanApiCall(t, op, name, up) ==
    /\ Free(t)
    /\ LET must_login == token = None
           held == IF ~must_login THEN token
                   ELSE IF up THEN Len(issued) + 1 ELSE None
           sent == held # None /\ up
       IN  /\ token' = held
           /\ issued' = IF must_login /\ up THEN Append(issued, TRUE) ELSE issued
           /\ LET code == IF sent
                          THEN StatusCode(op, name, must_login \/ Accepted(token))
                          ELSE 0
              IN  /\ panel' = IF code = 200 THEN PanelAfter(op, name) ELSE panel
                  /\ Goto(t, [IdleTask EXCEPT
                                 !.pc = "done", !.op = op, !.at = now, !.name = name,
                                 !.resp = up, !.status = code,
                                 !.requests = IF sent THEN 1 ELSE 0, !.reauth = 0,
                                 !.result = IF code = 200 THEN "Ok"
                                            ELSE IF held = None THEN "AuthFailed"
                                            ELSE IF sent THEN "ApiError" ELSE "Exception"])
    /\ UNCHANGED <<now, api, outbox, store>>
    /\ UNCHANGED dialogue

\* the panel lets a token it has issued expire
TokenExpires(k) ==
    /\ Accepted(k)
    /\ issued' = [issued EXCEPT ![k] = FALSE]
    /\ UNCHANGED <<now, api, token, outbox, store, panel, tasks>>
    /\ UNCHANGED dialogue

MarzbanAPI(t) ==
    \E op \in ApiOps, up \in BOOLEAN : MarzbanApiCall(t, op, UserName(1), up)

\* ------------------------------------- ResellerManager.create_reseller
\* a caller invokes create_reseller(telegram_id = tg, bandwidth_gb = gb, days = Days,
\* max_users = mu)
CallCreateReseller(t, tg, gb, mu) ==
    /\ Free(t)
    /\ Cardinality(DOMAIN resellers) < MaxResellers
    /\ \A s \in Tasks : tasks[s].op = "create_reseller" => Free(s)
    /\ Goto(t, [IdleTask EXCEPT !.pc = "create_reseller", !.op = "create_reseller",
                                !.key = tg, !.gb = gb, !.max_users = mu])
    /\ UNCHANGED <<now, gateway, outbox, store, panel>>
    /\ UNCHANGED dialogue

\* users with the rows written by a connection and not yet committed
UsersWith(pending) ==
    [tg \in DOMAIN users \cup {pending[k].telegram_id : k \in DOMAIN pending} |->
        IF \E k \in DOMAIN pending : pending[k].telegram_id = tg
        THEN "reseller" ELSE users[tg]]

\* the INSERT INTO resellers and conn.commit() of create_reseller: the new row, and
\* the users rows the connection has written
CommitCreateReseller(rid, tg, gb, expiry, mu, pending) ==
    /\ resellers' = [r \in DOMAIN resellers \cup {rid} |->
                        IF r = rid
                        THEN [ResellerRow(tg, rid, gb, Days, mu) EXCEPT !.expiry_date = expiry]
                        ELSE resellers[r]]
    /\ users' = UsersWith(pending)
    /\ UNCHANGED <<end_users, usage_log, notifications, admins>>

\* create_reseller from the SELECT on users to the await on marzban_api.create_user
\* (or, with no API, to the return): the INSERT INTO users, or the UPDATE of the
\* role, is executed here and stays uncommitted (pending) over the await
CreateResellerStart(t) ==
    /\ tasks[t].pc = "create_reseller"
    /\ LET tg == tasks[t].key
           rid == Cardinality(DOMAIN resellers) + 1
           pending == IF tg \in DOMAIN users /\ users[tg] = "reseller"
                      THEN <<>>
                      ELSE <<[telegram_id |-> tg, role |-> "reseller"]>>
           expiry == now + Days
       IN  IF api
           THEN /\ Goto(t, [tasks[t] EXCEPT !.pc = "cr_await", !.rid = rid,
                                            !.bytes = tasks[t].gb * GiB,
                                            !.expiry = expiry, !.pending = pending,
                                            !.name = ResellerName(rid)])
                /\ UNCHANGED <<store, panel>>
           ELSE /\ CommitCreateReseller(rid, tg, tasks[t].gb, expiry, tasks[t].max_users,
                                        pending)
                /\ Return(t, "Ok", NoRow)
                /\ UNCHANGED panel
    /\ UNCHANGED <<now, gateway, outbox>>
    /\ UNCHANGED dialogue

\* MarzbanAPI.create_user for the reseller's account: the panel accepts the POST
PanelCreateResellerOk(t) ==
    /\ tasks[t].pc = "cr_await"
    /\ panel' = [u \in DOMAIN panel \cup {tasks[t].name} |->
                    IF u = tasks[t].name
                    THEN [data_limit |-> tasks[t].bytes,
                          expire |-> tasks[t].expiry,
                          used_traffic |-> 0]
                    ELSE panel[u]]
    /\ Goto(t, [tasks[t] EXCEPT !.pc = "cr_resume", !.resp = TRUE])
    /\ UNCHANGED <<now, gateway, outbox, store>>
    /\ UNCHANGED dialogue

\* MarzbanAPI.create_user: login fails, the status is not 200, or requests raises
PanelCreateResellerFail(t) ==
    /\ tasks[t].pc = "cr_await"
    /\ Goto(t, [tasks[t] EXCEPT !.pc = "cr_resume", !.resp = FALSE])
    /\ UNCHANGED <<now, gateway, outbox, store, panel>>
    /\ UNCHANGED dialogue

\* a create_reseller that commits what its connection has written when the remote
\* call fails: the users row stays
CreateResellerResumeKeepsUser(t) ==
    /\ tasks[t].pc = "cr_resume"
    /\ IF tasks[t].resp
       THEN /\ CommitCreateReseller(tasks[t].rid, tasks[t].key, tasks[t].gb,
                                    tasks[t].expiry, tasks[t].max_users, tasks[t].pending)
            /\ Return(t, "Ok", NoRow)
       ELSE /\ Return(t, "RemoteError", NoRow)
            /\ users' = UsersWith(tasks[t].pending)
            /\ UNCHANGED <<resellers, end_users, usage_log, notifications, admins>>
    /\ UNCHANGED <<now, gateway, outbox, panel>>
    /\ UNCHANGED dialogue

\* create_reseller from the return of the await to its own return: the INSERT INTO
\* resellers and the commit, or the return of the failure, after which conn.close()
\* rolls back the users row
CreateResellerResume(t) ==
    /\ tasks[t].pc = "cr_resume"
    /\ IF tasks[t].resp
       THEN /\ CommitCreateReseller(tasks[t].rid, tasks[t].key, tasks[t].gb,
                                    tasks[t].expiry, tasks[t].max_users, tasks[t].pending)
            /\ Return(t, "Ok", NoRow)
       ELSE /\ Return(t, "RemoteError", NoRow)
            /\ UNCHANGED store
    /\ UNCHANGED <<now, gateway, outbox, panel>>
    /\ UNCHANGED dialogue

CreateReseller(t) ==
    \/ \E tg \in {TelegramOf(r) : r \in 1..MaxResellers} \cup StartedIds :
          CallCreateReseller(t, tg, OtherBandwidthGB, OtherMaxUsers)
    \/ CreateResellerStart(t)
    \/ PanelCreateResellerOk(t)
    \/ PanelCreateResellerFail(t)
    \/ CreateResellerResume(t)

\* ------------------------------------------- the create-admin conversation
\* A text is the sequence of its characters.
Whitespace == {" "}

Digits == {"0", "1", "2", "3", "4", "5", "6", "7", "8", "9"}

RECURSIVE LStrip(_)
LStrip(s) == IF s # <<>> /\ Head(s) \in Whitespace THEN LStrip(Tail(s)) ELSE s

RECURSIVE RStrip(_)
RStrip(s) ==
    IF s # <<>> /\ s[Len(s)] \in Whitespace THEN RStrip(SubSeq(s, 1, Len(s) - 1)) ELSE s

\* str.strip()
Strip(s) == RStrip(LStrip(s))

\* the digits of a text after its sign
Unsigned(s) == IF s # <<>> /\ Head(s) \in {"+", "-"} THEN Tail(s) ELSE s

\* int(s) does not raise ValueError: an optional sign and decimal digits (the
\* texts sent hold no underscore and no digit outside ASCII)
IsInt(s) == Unsigned(s) # <<>> /\ \A i \in DOMAIN Unsigned(s) : Unsigned(s)[i] \in Digits

DigitValue(c) == CHOOSE n \in 0..9 : <<"0", "1", "2", "3", "4", "5", "6", "7", "8", "9">>[n + 1] = c

RECURSIVE Magnitude(_)
Magnitude(s) ==
    IF s = <<>> THEN 0
    ELSE 10 * Magnitude(SubSeq(s, 1, Len(s) - 1)) + DigitValue(s[Len(s)])

\* int(s)
ParseInt(s) == IF Head(s) = "-" THEN 0 - Magnitude(Unsigned(s)) ELSE Magnitude(Unsigned(s))

\* admin_username_received: `not username or ' ' in username` is false
ValidUsername(s) == s # <<>> /\ \A i \in DOMAIN s : s[i] # " "

\* an admin_password_received that takes any password that is not empty
ValidPasswordAnyLength(s) == s # <<>>

\* admin_password_received: `not password or len(password) < 6` is false
ValidPassword(s) == s # <<>> /\ Len(s) >= 6

\* the texts the operator sends
Texts == {<<"a", " ", "b">>, <<"a", "d", "m">>, <<"1", "2", "3", "4", "5", "6">>}

\* the admins created in an earlier run
EarlierAdmins == {<<"a", "d", "m">>}

\* the permissions of get_all_permissions the operator toggles
PermKeys == {"user_read", "user_create"}

\* get_permission_presets: the preset of the read-only role
Presets == [view_only |-> <<"dashboard_read", "user_read">>]

\* the callback data of the buttons the bot has shown; a button of an earlier
\* message can still be pressed
CallbackData ==
    {<<"create_admin">>, <<"back_to_admin">>, <<"cancel_admin">>, <<"confirm_admin">>,
     <<"custom_permissions">>, <<"confirm_permissions">>}
        \cup {<<"preset", p>> : p \in DOMAIN Presets \cup {"removed"}}
        \cup {<<"perm", k>> : k \in PermKeys}

\* the marzban-cli commands run in one run
MaxAdminCalls == 1

\* list.remove(k), list.append(k)
Toggle(list, k) ==
    IF \E i \in DOMAIN list : list[i] = k
    THEN SelectSeq(list, LAMBDA x : x # k)
    ELSE Append(list, k)

\* the handler of operator u returns state, user_data[u] being data then; h is
\* what the flow has seen
Handled(u, update, state, data, h) ==
    /\ conversations' = [conversations EXCEPT ![u] = state]
    /\ user_data' = [user_data EXCEPT ![u] = data]
    /\ flow' = [flow EXCEPT ![u] = [h EXCEPT !.update = update]]

\* operator u sends /start, the entry point and the fallback of the conversation:
\* start registers a super admin of the environment, shows admin_menu to a super
\* admin, and touches neither user_data nor a conversation that has no menu
Start(u) ==
    /\ LET role == IF u \in DOMAIN users THEN users[u] ELSE "none"
           registers == role \notin {"superadmin", "admin", "reseller"}
                            /\ u \in SuperAdminIds
           state == CASE role = "superadmin" \/ registers -> "ADMIN_MENU"
                      [] role = "admin" -> IF \E a \in DOMAIN admins : FALSE
                                           THEN "ADMIN_PANEL_MENU" ELSE "END"
                      [] role = "reseller" -> "RESELLER_MENU"
                      [] OTHER -> "END"
       IN  /\ users' = IF registers THEN Put(users, u, "superadmin") ELSE users
           /\ Handled(u, <<"/start">>, state, user_data[u], flow[u])
    /\ UNCHANGED <<now, gateway, outbox, resellers, end_users, usage_log, notifications,
                   admins, panel, tasks, permissions, activity_log, admin_calls>>

\* create_admin_start: the button of admin_menu is pressed
CreateAdminStart(u) ==
    /\ conversations[u] = "ADMIN_MENU"
    /\ Handled(u, <<"create_admin">>, "WAITING_ADMIN_USERNAME", user_data[u], NoFlow)
    /\ UNCHANGED <<now, gateway, outbox, store, panel, tasks, permissions, activity_log,
                   admin_calls>>

\* admin_username_received
AdminUsernameReceived(u, text) ==
    /\ conversations[u] = "WAITING_ADMIN_USERNAME"
    /\ LET username == Strip(text) IN
       IF ~ValidUsername(username)
       THEN Handled(u, text, "WAITING_ADMIN_USERNAME", user_data[u], flow[u])
       ELSE Handled(u, text, "WAITING_ADMIN_PASSWORD",
                    Put(user_data[u], "admin_username", username),
                    [flow[u] EXCEPT !.accepted = Append(@, "admin_username")])
    /\ UNCHANGED <<now, gateway, outbox, store, panel, tasks, permissions, activity_log,
                   admin_calls>>

\* admin_password_received
AdminPasswordReceived(u, text) ==
    /\ conversations[u] = "WAITING_ADMIN_PASSWORD"
    /\ LET password == Strip(text) IN
       IF ~ValidPassword(password)
       THEN Handled(u, text, "WAITING_ADMIN_PASSWORD", user_data[u], flow[u])
       ELSE Handled(u, text, "WAITING_ADMIN_TELEGRAM_ID",
                    Put(user_data[u], "admin_password", password),
                    [flow[u] EXCEPT !.accepted = Append(@, "admin_password")])
    /\ UNCHANGED <<now, gateway, outbox, store, panel, tasks, permissions, activity_log,
                   admin_calls>>

\* admin_telegram_id_received
AdminTelegramIdReceived(u, text) ==
    /\ conversations[u] = "WAITING_ADMIN_TELEGRAM_ID"
    /\ LET telegram_id == Strip(text) IN
       IF ~IsInt(telegram_id)
       THEN Handled(u, text, "WAITING_ADMIN_TELEGRAM_ID", user_data[u], flow[u])
       ELSE Handled(u, text, "ADMIN_PERMISSIONS",
                    Put(user_data[u], "admin_telegram_id", ParseInt(telegram_id)),
                    [flow[u] EXCEPT !.accepted = Append(@, "admin_telegram_id")])
    /\ UNCHANGED <<now, gateway, outbox, store, panel, tasks, permissions, activity_log,
                   admin_calls>>

\* admin_permissions_selected: whatever button is pressed while the presets are
\* shown
AdminPermissionsSelected(u, data) ==
    /\ conversations[u] = "ADMIN_PERMISSIONS"
    /\ CASE data = <<"cancel_admin">> ->
              Handled(u, data, "ADMIN_MENU", user_data[u],
                      [flow[u] EXCEPT !.cancelled = TRUE])
         [] data = <<"custom_permissions">> ->
              Handled(u, data, "WAITING_PERMISSION_SELECTION",
                      IF "selected_permissions" \notin DOMAIN user_data[u]
                      THEN Put(user_data[u], "selected_permissions", <<>>)
                      ELSE user_data[u],
                      flow[u])
         [] data[1] = "preset" /\ data[2] \in DOMAIN Presets ->
              Handled(u, data, "WAITING_ADMIN_CONFIRM",
                      Put(user_data[u], "selected_permissions", Presets[data[2]]),
                      [flow[u] EXCEPT !.selected = Presets[data[2]]])
         [] OTHER ->
              Handled(u, data, "ADMIN_PERMISSIONS", user_data[u], flow[u])
    /\ UNCHANGED <<now, gateway, outbox, store, panel, tasks, permissions, activity_log,
                   admin_calls>>

\* handle_permission_selection: whatever button is pressed while the permissions
\* are shown
HandlePermissionSelection(u, data) ==
    /\ conversations[u] = "WAITING_PERMISSION_SELECTION"
    /\ CASE data = <<"cancel_admin">> ->
              Handled(u, data, "ADMIN_MENU", user_data[u],
                      [flow[u] EXCEPT !.cancelled = TRUE])
         [] data = <<"confirm_permissions">> ->
              Handled(u, data, "WAITING_ADMIN_CONFIRM", user_data[u], flow[u])
         [] data[1] = "perm" ->
              LET selected == IF "selected_permissions" \in DOMAIN user_data[u]
                              THEN user_data[u]["selected_permissions"] ELSE <<>>
              IN  Handled(u, data, "WAITING_PERMISSION_SELECTION",
                          Put(user_data[u], "selected_permissions",
                              Toggle(selected, data[2])),
                          [flow[u] EXCEPT !.selected = Toggle(@, data[2])])
         [] OTHER ->
              Handled(u, data, "WAITING_PERMISSION_SELECTION", user_data[u], flow[u])
    /\ UNCHANGED <<now, gateway, outbox, store, panel, tasks, permissions, activity_log,
                   admin_calls>>

\* the marzban-cli command of create_admin, and that of update_admin_permissions
CreateCommand(username, password, ok, state) ==
    [cmd |-> "admin create", username |-> username, password |-> password,
     permissions |-> <<>>, ok |-> ok, state |-> state]

UpdateCommand(username, perms, ok, state) ==
    [cmd |-> "admin update", username |-> username, password |-> <<>>,
     permissions |-> perms, ok |-> ok, state |-> state]

\* create_admin_confirmed: whatever button is pressed while the confirmation is
\* shown. created, granted and delivered are the outcomes of marzban-cli's admin
\* create, of its admin update and of bot.send_message. When the INSERT into
\* marzban_admins raises (marzban_username is UNIQUE) the handler raises in turn,
\* panel_url not being bound, and the conversation stays where it is
CreateAdminConfirmed(u, data, created, granted, delivered) ==
    /\ conversations[u] = "WAITING_ADMIN_CONFIRM"
    /\ IF data = <<"cancel_admin">>
       THEN /\ Handled(u, data, "ADMIN_MENU", user_data[u],
                       [flow[u] EXCEPT !.cancelled = TRUE])
            /\ UNCHANGED <<users, admins, permissions, activity_log, admin_calls, outbox>>
       ELSE LET username == user_data[u]["admin_username"]
                password == user_data[u]["admin_password"]
                telegram_id == user_data[u]["admin_telegram_id"]
                perms == IF "selected_permissions" \in DOMAIN user_data[u]
                         THEN user_data[u]["selected_permissions"] ELSE <<>>
                state == conversations[u]
                create == <<CreateCommand(username, password, created, state)>>
                update == IF created /\ perms # <<>>
                          THEN <<UpdateCommand(username, perms, granted, state)>>
                          ELSE <<>>
                saved == created /\ username \notin DOMAIN admins
            IN  /\ Len(admin_calls) < MaxAdminCalls
                /\ admin_calls' = admin_calls \o create \o update
                /\ users' = IF saved /\ telegram_id \notin DOMAIN users
                            THEN Put(users, telegram_id, "admin") ELSE users
                /\ admins' = IF saved THEN Put(admins, username, EmptyLimits) ELSE admins
                /\ permissions' = IF saved THEN Put(permissions, username, perms)
                                  ELSE permissions
                /\ outbox' = IF saved /\ telegram_id # u /\ delivered
                             THEN Append(outbox, [chat_id |-> telegram_id, user_id |-> 0,
                                                  notification_type |-> "welcome",
                                                  run |-> now, at |-> now])
                             ELSE outbox
                /\ activity_log' = IF saved
                                   THEN Append(activity_log,
                                               [action |-> "create_admin",
                                                username |-> username, creator |-> u,
                                                permissions |-> perms])
                                   ELSE activity_log
                /\ IF created /\ ~saved
                   THEN Handled(u, data, state, user_data[u], flow[u])
                   ELSE Handled(u, data, "ADMIN_MENU", NoData, flow[u])
    /\ UNCHANGED <<now, gateway, resellers, end_users, usage_log, notifications, panel,
                   tasks>>

\* ------------------------------------------------------- specifications
NextCreate == \E t \in Tasks : CreateUser(t)

NextReseller ==
    \/ \E t \in Tasks : CreateUser(t)
    \/ \E t \in Extenders : GetResellerInfo(t)
    \/ \E t \in Extenders : UpdateResellerLimits(t)
    \/ \E r \in Called : PanelTraffic(ResellerName(r))

NextExtend ==
    \/ \E t \in Extenders : GetResellerInfo(t)
    \/ \E t \in Extenders : UpdateResellerLimits(t)
    \/ \E r \in Called : PanelTraffic(ResellerName(r))
    \/ Tick

NextAdmin ==
    \/ \E t \in Extenders : AdminLimits(t)
    \/ Tick

Next ==
    \/ \E t \in Tasks : CreateUser(t)
    \/ \E t \in Tasks : GetResellerInfo(t)
    \/ \E t \in Tasks : UpdateResellerLimits(t)
    \/ \E t \in Tasks : GetUserInfo(t)
    \/ \E u \in DOMAIN panel : PanelTraffic(u)
    \/ \E t \in Tasks : AdminLimits(t)
    \/ \E t \in Tasks : AdminReads(t)
    \/ \E t \in Tasks : Lists(t)
    \/ \E t \in Tasks : CheckAndNotifyUsers(t)
    \/ \E t \in Tasks : SendScheduledReports(t)
    \/ \E t \in Tasks : MarzbanAPI(t)
    \/ \E t \in Tasks : CreateReseller(t)
    \/ \E k \in DOMAIN issued : TokenExpires(k)
    \/ Tick
    \/ DayPasses

\* every operation, every caller
Spec == Init /\ [][Next]_vars

\* create_user alone, two concurrent callers
SpecCreate == Init /\ [][NextCreate]_vars

\* create_user by two concurrent callers, get_reseller_info and
\* update_reseller_limits by one of them, the panel metering the resellers' traffic
SpecReseller == Init /\ [][NextReseller]_vars

\* get_reseller_info and update_reseller_limits by one caller, the panel metering
\* the resellers' traffic, the clock running
SpecExtend == Init /\ [][NextExtend]_vars

\* the store as Init leaves it, with no panel API and with the resellers all alike
InitNoPanel ==
    /\ Init
    /\ ~api
    /\ \A r \in Called :
          /\ resellers[r].bandwidth_limit = OtherBandwidthGB * GiB
          /\ resellers[r].max_users = OtherMaxUsers

\* set_admin_limits and update_admin_usage by one caller, the clock running; the
\* resellers play no part
SpecAdmin == InitNoPanel /\ [][NextAdmin]_vars

NextCheck ==
    \/ \E t \in Extenders : AdminLimits(t)
    \/ \E t \in Extenders : AdminReads(t)
    \/ Tick

\* set_admin_limits, update_admin_usage, get_admin_limits and check_admin_limits
\* by one caller, the clock running; the resellers play no part
SpecCheck == InitNoPanel /\ [][NextCheck]_vars

\* The store after setup_database and n calls of create_reseller, n from none to
\* one per reseller id, each reseller with room for MaxMaxUsers end-users.
InitList ==
    /\ now = 0
    /\ api \in BOOLEAN
    /\ \E n \in 0..Cardinality(ResellerIds) :
          resellers = [r \in 1..n |->
                          ResellerRow(TelegramOf(r), r, MaxLimitGB, Days, MaxMaxUsers)]
    /\ end_users = <<>>
    /\ usage_log = <<>>
    /\ token = None
    /\ issued = <<>>
    /\ users = [tg \in {TelegramOf(r) : r \in DOMAIN resellers} |-> "reseller"]
    /\ notifications = <<>>
    /\ outbox = <<>>
    /\ admins = [a \in AdminNames |-> EmptyLimits]
    /\ panel = IF api
               THEN [u \in {ResellerName(r) : r \in DOMAIN resellers} |->
                        [data_limit |-> resellers[u[2]].bandwidth_limit,
                         expire |-> resellers[u[2]].expiry_date,
                         used_traffic |-> 0]]
               ELSE [u \in {} |-> 0]
    /\ tasks = [t \in Tasks |-> IdleTask]
    /\ InitDialogue

NextList ==
    \/ \E t \in Extenders : CreateUser(t)
    \/ \E t \in Extenders : Lists(t)

\* create_user, list_users_for_reseller and list_resellers by one caller, on a
\* store with no, one or two resellers
SpecList == InitList /\ [][NextList]_vars

NextRefresh ==
    \/ \E t \in Extenders : CreateUser(t)
    \/ \E t \in Extenders : GetResellerInfo(t)
    \/ \E t \in Extenders : GetUserInfo(t)
    \/ \E u \in DOMAIN panel : PanelTraffic(u)

\* create_user, get_reseller_info and get_user_info by one caller, one call after
\* the other, the panel metering the traffic of every account
SpecRefresh == Init /\ [][NextRefresh]_vars

\* bandwidth_used of an end-user of limit bytes: none, one unit more and just as
\* much as leaves WarnRemaining, all but one unit, all, and one unit too much
SweepUsed(limit) ==
    {0, limit - WarnRemaining - 1, limit - WarnRemaining, limit - 1, limit, limit + 1}

\* the days argument of create_user: Days, as many as the expiry sweep looks ahead,
\* or so many that the expiry is not near
SweepDays == {Days, ExpirySoonDays, MaxSweepNow + ExpirySoonDays + 1}

\* The store after setup_database, create_reseller for every reseller, one
\* create_user of SweepUserGB for the first n of them, and get_user_info having
\* stored the traffic the panel reported for these end-users.
InitNotify ==
    /\ now = 0
    /\ api = TRUE
    /\ \E n \in 1..Cardinality(ResellerIds) :
       \E used \in [1..n -> SweepUsed(SweepUserGB * GiB)], days \in [1..n -> SweepDays] :
          /\ end_users = [i \in 1..n |->
                             [EndUserRow(i, UserName(i), SweepUserGB * GiB, now + days[i])
                                 EXCEPT !.bandwidth_used = used[i]]]
          /\ resellers = [r \in ResellerIds |->
                             IF r <= n
                             THEN [ResellerRow(TelegramOf(r), r, SweepUserGB + 1, Days,
                                               MaxMaxUsers)
                                      EXCEPT !.current_users = 1,
                                             !.bandwidth_used = SweepUserGB * GiB]
                             ELSE ResellerRow(TelegramOf(r), r, SweepUserGB + 1, Days,
                                              MaxMaxUsers)]
    /\ usage_log = <<>>
    /\ token = None
    /\ issued = <<>>
    /\ users = [tg \in {TelegramOf(r) : r \in DOMAIN resellers} |-> "reseller"]
    /\ notifications = <<>>
    /\ outbox = <<>>
    /\ admins = [a \in AdminNames |-> EmptyLimits]
    /\ panel = [u \in {ResellerName(r) : r \in ResellerIds}
                        \cup {UserName(i) : i \in DOMAIN end_users} |->
                   IF u[1] = "reseller"
                   THEN [data_limit |-> resellers[u[2]].bandwidth_limit,
                         expire |-> resellers[u[2]].expiry_date,
                         used_traffic |-> 0]
                   ELSE [data_limit |-> end_users[u[2]].bandwidth_limit,
                         expire |-> end_users[u[2]].expiry_date,
                         used_traffic |-> end_users[u[2]].bandwidth_used]]
    /\ tasks = [t \in Tasks |-> IdleTask]
    /\ InitDialogue

NextNotify ==
    \/ \E t \in Extenders : CheckAndNotifyUsers(t)
    \/ DayPasses

\* check_and_notify_users run again and again by the notification loop, over days
SpecNotify == InitNotify /\ [][NextNotify]_vars


\* The store of Init, and in users the people of StartedIds: those named in
\* SUPER_ADMIN_IDS as superadmin, the others as create_admin_confirmed has made
\* them admin.
InitReport ==
    /\ now = 0
    /\ api = FALSE
    /\ resellers = [r \in ResellerIds |->
                       ResellerRow(TelegramOf(r), r, OtherBandwidthGB, Days, OtherMaxUsers)]
    /\ \E role \in [StartedIds -> {"superadmin", "admin"}] :
          users = [tg \in {TelegramOf(r) : r \in ResellerIds} \cup StartedIds |->
                      IF tg \in StartedIds THEN role[tg] ELSE "reseller"]
    /\ end_users = <<>>
    /\ usage_log = <<>>
    /\ token = None
    /\ issued = <<>>
    /\ notifications = <<>>
    /\ outbox = <<>>
    /\ admins = [a \in AdminNames |-> EmptyLimits]
    /\ panel = [u \in {} |-> 0]
    /\ tasks = [t \in Tasks |-> IdleTask]
    /\ InitDialogue

NextReport ==
    \/ \E t \in Extenders : SendScheduledReports(t)
    \/ DayPasses

\* send_scheduled_reports, cycle after cycle, over days
SpecReport == InitReport /\ [][NextReport]_vars

\* The store and the panel of InitReport, and the MarzbanAPI object as the module
\* builds it: no token yet.
InitGateway == InitReport /\ token = None

NextGateway ==
    \/ \E t \in Extenders : MarzbanAPI(t)
    \/ \E k \in DOMAIN issued : TokenExpires(k)
    \/ DayPasses

\* the operations of MarzbanAPI called one after the other, the panel letting
\* tokens expire
SpecGateway == InitGateway /\ [][NextGateway]_vars

NextOwner ==
    \/ \E t \in Extenders :
          CallCreateReseller(t, TelegramOf(1), OtherBandwidthGB, OtherMaxUsers)
    \/ \E t \in Extenders : CreateResellerStart(t)
    \/ \E t \in Extenders : PanelCreateResellerOk(t)
    \/ \E t \in Extenders : PanelCreateResellerFail(t)
    \/ \E t \in Extenders : CreateResellerResume(t)
    \/ \E t \in Extenders : CreateUser(t)
    \/ \E t \in Extenders : GetUserInfo(t)
    \/ \E t \in Extenders : GetResellerInfoSelect(t)
    \/ \E t \in Extenders : PanelGetUserOk(t)
    \/ \E t \in Extenders : PanelGetUserFail(t)
    \/ \E t \in Extenders : GetResellerInfoResume(t)
    \/ \E t \in Extenders, tg \in {TelegramOf(r) : r \in Called} :
          ListUsersForReseller(t, tg, 0, MaxPageSize)
    \/ \E t \in Extenders : CheckAndNotifyUsers(t)
    \/ \E t \in Extenders, rid \in Called : CallUpdateResellerLimits(t, rid, 0, 0, -1)
    \/ \E t \in Extenders : PanelUpdateUserOk(t)
    \/ \E t \in Extenders : PanelUpdateUserFail(t)
    \/ \E t \in Extenders : UpdateLimitsResume(t)
    \/ \E i \in DOMAIN end_users : PanelTraffic(end_users[i].marzban_username)

\* every operation that reads or writes end_users, and create_reseller and
\* update_reseller_limits (taking a user off the cap), by one caller, one call
\* after the other, on a store with no, one or two resellers to begin with, the
\* panel metering the traffic of the end-users
SpecOwner == InitList /\ [][NextOwner]_vars

NextRevive ==
    \/ \E t \in Tasks \ Extenders : CreateUser(t)
    \/ \E t \in Extenders : UpdateResellerLimits(t)
    \/ \E t \in Extenders : GetResellerInfoSelect(t)
    \/ \E t \in Extenders : PanelGetUserOk(t)
    \/ \E t \in Extenders : PanelGetUserFail(t)
    \/ \E t \in Extenders : GetResellerInfoResume(t)
    \/ \E r \in Called : PanelTraffic(ResellerName(r))
    \/ Tick

\* create_user by one caller and update_reseller_limits by another, the panel
\* metering the reseller's traffic, the clock running past the expiry
SpecRevive == Init /\ [][NextRevive]_vars

NextConcurrentExtend ==
    \/ \E t \in Tasks : UpdateResellerLimits(t)
    \/ \E t \in Tasks : GetResellerInfoSelect(t)
    \/ \E t \in Tasks : PanelGetUserOk(t)
    \/ \E t \in Tasks : PanelGetUserFail(t)
    \/ \E t \in Tasks : GetResellerInfoResume(t)

\* update_reseller_limits by two callers at once, their steps interleaved at the
\* awaits
SpecConcurrentExtend == Init /\ [][NextConcurrentExtend]_vars

\* the arguments the two callers give: set_admin_limits (max_bandwidth, max_users,
\* max_days) and update_admin_usage (bandwidth_used, users_created)
ConcurrentSetArgs == {<<1, None, None>>, <<None, 1, 1>>, <<0, 0, None>>}
ConcurrentUsageArgs == {<<1, None>>, <<None, 1>>, <<1, 1>>}

NextConcurrentAdmin ==
    \/ \E t \in Tasks, a \in AdminArgs, l \in ConcurrentSetArgs :
          CallSetAdminLimits(t, a, l[1], l[2], l[3])
    \/ \E t \in Tasks : SetAdminLimits(t)
    \/ \E t \in Tasks, a \in AdminArgs, u \in ConcurrentUsageArgs :
          CallUpdateAdminUsage(t, a, u[1], u[2])
    \/ \E t \in Tasks : UpdateAdminUsage(t)

\* set_admin_limits and update_admin_usage by two callers at once; neither
\* operation suspends between its SELECT and its commit
SpecConcurrentAdmin == InitNoPanel /\ [][NextConcurrentAdmin]_vars

\* The store after setup_database, /start sent by the people in StartedIds (one
\* users row each, with the role they were given) and n calls of create_reseller,
\* the panel holding the resellers' accounts when the API is configured.
InitEnroll ==
    /\ now = 0
    /\ api \in BOOLEAN
    /\ \E n \in 0..Cardinality(ResellerIds) :
          resellers = [r \in 1..n |->
                          ResellerRow(TelegramOf(r), r, OtherBandwidthGB, Days, OtherMaxUsers)]
    /\ \E role \in [StartedIds -> {"superadmin", "admin"}] :
          users = [tg \in {TelegramOf(r) : r \in DOMAIN resellers} \cup StartedIds |->
                      IF tg \in StartedIds THEN role[tg] ELSE "reseller"]
    /\ end_users = <<>>
    /\ usage_log = <<>>
    /\ token = None
    /\ issued = <<>>
    /\ notifications = <<>>
    /\ outbox = <<>>
    /\ admins = [a \in AdminNames |-> EmptyLimits]
    /\ panel = IF api
               THEN [u \in {ResellerName(r) : r \in DOMAIN resellers} |->
                        [data_limit |-> resellers[u[2]].bandwidth_limit,
                         expire |-> resellers[u[2]].expiry_date,
                         used_traffic |-> 0]]
               ELSE [u \in {} |-> 0]
    /\ tasks = [t \in Tasks |-> IdleTask]
    /\ InitDialogue

NextEnroll == \E t \in Tasks : CreateReseller(t)

\* create_reseller called by two callers, one call at a time, for people who have
\* a users row (as reseller or in another role) and for people who have none
SpecEnroll == InitEnroll /\ [][NextEnroll]_vars

\* the store of InitEnroll with the reseller the callers extend in it
InitAgree == InitEnroll /\ api /\ Called \subseteq DOMAIN resellers

NextAgree ==
    \/ \E t \in Tasks \ Extenders : CreateReseller(t)
    \/ \E t \in Extenders : UpdateResellerLimits(t)
    \/ \E t \in Extenders : GetResellerInfoSelect(t)
    \/ \E t \in Extenders : PanelGetUserOk(t)
    \/ \E t \in Extenders : PanelGetUserFail(t)
    \/ \E t \in Extenders : GetResellerInfoResume(t)

\* create_reseller by one caller and update_reseller_limits by another, with the
\* panel API configured, each call succeeding or failing at the remote step or at
\* the local write
SpecAgree == InitAgree /\ [][NextAgree]_vars

\* the store after setup_database and, in marzban_admins, the admins of an
\* earlier run, if any; no panel API
InitConversation ==
    /\ now = 0
    /\ api = FALSE
    /\ token = None
    /\ issued = <<>>
    /\ users = [tg \in {} |-> ""]
    /\ resellers = <<>>
    /\ end_users = <<>>
    /\ usage_log = <<>>
    /\ notifications = <<>>
    /\ outbox = <<>>
    /\ \E earlier \in SUBSET EarlierAdmins :
          /\ admins = [a \in earlier |-> EmptyLimits]
          /\ permissions = [a \in earlier |-> <<>>]
    /\ panel = [u \in {} |-> 0]
    /\ tasks = [t \in Tasks |-> IdleTask]
    /\ conversations = [u \in Operators |-> "END"]
    /\ user_data = [u \in Operators |-> NoData]
    /\ activity_log = <<>>
    /\ admin_calls = <<>>
    /\ flow = [u \in Operators |-> NoFlow]

NextConversation ==
    \/ \E u \in Operators : Start(u)
    \/ \E u \in Operators : CreateAdminStart(u)
    \/ \E u \in Operators, text \in Texts : AdminUsernameReceived(u, text)
    \/ \E u \in Operators, text \in Texts : AdminPasswordReceived(u, text)
    \/ \E u \in Operators, text \in Texts : AdminTelegramIdReceived(u, text)
    \/ \E u \in Operators, data \in CallbackData : AdminPermissionsSelected(u, data)
    \/ \E u \in Operators, data \in CallbackData : HandlePermissionSelection(u, data)
    \/ \E u \in Operators, data \in CallbackData, created \in BOOLEAN, granted \in BOOLEAN,
          delivered \in BOOLEAN :
          CreateAdminConfirmed(u, data, created, granted, delivered)

\* the conversation of main with one super admin: /start, the create-admin flow,
\* any button of any message shown so far
SpecConversation == InitConversation /\ [][NextConversation]_vars

\* ================================================================ claims
\* the reseller a create_user frame was called for (telegram ids never change)
Caller(f) == Min(ResellersByTelegram(f.key))

\* frame f holds a create_user call that returned a denial
Denied(f) ==
    /\ f.pc = "done"
    /\ f.op = "create_user"
    /\ f.result \in {"DeniedUsers", "DeniedBandwidth"}

\* frame f holds a create_user call that returned success
Created(f) == f.pc = "done" /\ f.op = "create_user" /\ f.result = "Ok"

\* this step is task t's cap check on an existing reseller
ChecksCaps(t) ==
    /\ tasks[t].pc = "create_user"
    /\ tasks'[t].pc # "create_user"
    /\ ResellersByTelegram(tasks[t].key) # {}

\* this step is the one in which task t's create_user commits and returns success
CommitsCreate(t) ==
    /\ tasks[t].pc \in {"create_user", "cu_resume"}
    /\ Created(tasks'[t])

\* C1: no oversell - a reseller with bandwidth_limit > 0 never has bandwidth_used
\* above bandwidth_limit, whatever create_user calls ran, interleaved or not.
C1_NoOversell ==
    \A r \in DOMAIN resellers :
        resellers[r].bandwidth_limit > 0
            => resellers[r].bandwidth_used <= resellers[r].bandwidth_limit

\* C2: a create_user that returns a denial (user cap reached, bandwidth
\* insufficient) leaves the resellers rows, the end_users rows, the usage ledger
\* and the panel's accounts exactly as they were.
C2_DenialChangesNothing ==
    [][\A t \in Tasks :
          (tasks[t].pc # "done" /\ Denied(tasks'[t]))
              => UNCHANGED <<resellers, end_users, usage_log, notifications, users, panel>>]_vars

\* a second create_user was denied after a first one had been committed
C2_Witness ==
    \E t \in Tasks : Denied(tasks[t]) /\ Len(end_users) >= 1

\* C3: against a reseller with max_users > 0 and bandwidth_limit > 0, create_user
\* is denied exactly when current_users + 1 > max_users or bandwidth_used +
\* requested bytes > bandwidth_limit (reaching a cap exactly is allowed).
C3_DeniedIffOverCap ==
    [][\A t \in Tasks :
          LET r == resellers[Caller(tasks[t])] IN
          (ChecksCaps(t) /\ r.max_users > 0 /\ r.bandwidth_limit > 0)
              => (Denied(tasks'[t])
                    <=> \/ r.current_users + 1 > r.max_users
                        \/ r.bandwidth_used + tasks[t].gb * GiB > r.bandwidth_limit)]_vars

\* a create_user succeeded that took the reseller exactly to both of its caps
C3_Witness ==
    \E t \in Tasks :
        /\ Created(tasks[t])
        /\ LET r == resellers[Caller(tasks[t])] IN
           /\ r.bandwidth_limit > 0
           /\ r.bandwidth_used = r.bandwidth_limit
           /\ r.max_users > 0
           /\ r.current_users = r.max_users

\* C4: a cap of zero means unlimited - create_user is never denied for the user
\* count when max_users = 0, and never for bandwidth when bandwidth_limit = 0.
C4_ZeroCapUnlimited ==
    [][\A t \in Tasks :
          LET r == resellers[Caller(tasks[t])] IN
          ChecksCaps(t)
              => /\ r.max_users = 0 => tasks'[t].result # "DeniedUsers"
                 /\ r.bandwidth_limit = 0 => tasks'[t].result # "DeniedBandwidth"]_vars

\* C5: a successful create_user for B bytes appends exactly one end_users row,
\* owned by the calling reseller, with bandwidth_limit B and bandwidth_used 0, adds
\* exactly B to that reseller's bandwidth_used and 1 to its current_users, in the
\* same step, and changes nothing else of any reseller.
C5_CreateCommitsExactly ==
    [][\A t \in Tasks :
          CommitsCreate(t) =>
              LET rid == Caller(tasks[t])
                  B == tasks[t].gb * GiB
                  n == Len(end_users)
              IN  /\ Len(end_users') = n + 1
                  /\ \A i \in 1..n : end_users'[i] = end_users[i]
                  /\ end_users'[n + 1].reseller_id = rid
                  /\ end_users'[n + 1].bandwidth_limit = B
                  /\ end_users'[n + 1].bandwidth_used = 0
                  /\ resellers'[rid] =
                        [resellers[rid] EXCEPT !.bandwidth_used = @ + B,
                                               !.current_users = @ + 1]
                  /\ \A r \in DOMAIN resellers \ {rid} : resellers'[r] = resellers[r]]_vars

\* a create_user has succeeded: its row is there and its reseller is charged for it
C5_Witness ==
    \E t \in Tasks :
        /\ Created(tasks[t])
        /\ Len(end_users) = 1
        /\ end_users[1].reseller_id = Caller(tasks[t])
        /\ end_users[1].bandwidth_limit = tasks[t].gb * GiB
        /\ resellers[Caller(tasks[t])].bandwidth_used = tasks[t].gb * GiB
        /\ resellers[Caller(tasks[t])].current_users = 1

\* the bandwidth_limit of the first n end_users rows owned by reseller rid, summed
RECURSIVE AllocatedTo(_, _)
AllocatedTo(rid, n) ==
    IF n = 0
    THEN 0
    ELSE AllocatedTo(rid, n - 1)
           + (IF end_users[n].reseller_id = rid THEN end_users[n].bandwidth_limit ELSE 0)

\* C6: hierarchical containment - the bandwidth_limit of the end_users a reseller
\* owns, summed, never exceeds that reseller's bandwidth_limit, whatever
\* create_user, usage refresh and update_reseller_limits calls ran.
C6_Containment ==
    \A r \in DOMAIN resellers :
        AllocatedTo(r, Len(end_users)) <= resellers[r].bandwidth_limit

\* this step is the one in which task t's call of a budget-changing operation
\* commits and returns success
CommitsBudgetChange(t) ==
    /\ tasks[t].pc # "done"
    /\ tasks'[t].pc = "done"
    /\ tasks'[t].result = "Ok"
    /\ tasks'[t].op \in {"create_user", "update_reseller_limits",
                         "update_admin_usage", "set_admin_limits"}

\* C7: ledger completeness - every commit of create_user, update_reseller_limits,
\* update_admin_usage or set_admin_limits writes exactly one usage_log row in the
\* same step.
C7_LedgerComplete ==
    [][\A t \in Tasks :
          CommitsBudgetChange(t) => Len(usage_log') = Len(usage_log) + 1]_vars

\* C8: an admin with max_bandwidth_gb > 0 never has used_bandwidth_gb above
\* max_bandwidth_gb, whatever update_admin_usage and set_admin_limits calls ran.
C8_AdminWithinCap ==
    \A a \in DOMAIN admins :
        LET limits == MergedLimits(admins[a]) IN
        limits.max_bandwidth_gb > 0
            => limits.used_bandwidth_gb <= limits.max_bandwidth_gb

\* C9: a reseller with max_users > 0 never has current_users above max_users,
\* whatever create_user and update_reseller_limits calls ran, interleaved or not,
\* and whatever add_users they were given.
C9_UsersWithinCap ==
    \A r \in DOMAIN resellers :
        resellers[r].max_users > 0
            => resellers[r].current_users <= resellers[r].max_users

\* this step is the one in which task t's update_reseller_limits commits and
\* returns success
CommitsUpdate(t) ==
    /\ tasks[t].pc \in {"update_reseller_limits", "url_resume"}
    /\ tasks'[t].pc = "done"
    /\ tasks'[t].op = "update_reseller_limits"
    /\ tasks'[t].result = "Ok"

\* C10: a successful update_reseller_limits adds to the stored values - the new
\* bandwidth_limit is the stored one plus add_bandwidth_gb GB, the new max_users
\* the stored one plus add_users, the new expiry_date the stored one plus
\* add_days, whatever the current time is.
C10_UpdateAdds ==
    [][\A t \in Tasks :
          CommitsUpdate(t) =>
              LET old == resellers[tasks[t].key]
                  new == resellers'[tasks[t].key]
              IN  /\ new.bandwidth_limit
                        = old.bandwidth_limit + tasks[t].add_bandwidth_gb * GiB
                  /\ new.max_users = old.max_users + tasks[t].add_users
                  /\ new.expiry_date = old.expiry_date + tasks[t].add_days]_vars

\* a reseller that had already expired was extended by a day: its expiry_date is
\* a day after the old one, which is not a day after the time of the call
C10_Witness ==
    \E t \in Tasks :
        /\ tasks[t].pc = "done"
        /\ tasks[t].op = "update_reseller_limits"
        /\ tasks[t].result = "Ok"
        /\ tasks[t].add_days = 1
        /\ tasks[t].row.expiry_date < tasks[t].at
        /\ resellers[tasks[t].key].expiry_date = tasks[t].row.expiry_date + 1
        /\ resellers[tasks[t].key].expiry_date # tasks[t].at + 1

\* the limits update_reseller_limits writes, of a resellers row
Limits(r) == <<r.bandwidth_limit, r.expiry_date, r.max_users>>

Refreshes(f) == f.op \in {"get_reseller_info", "get_user_info"}

\* the stored bandwidth_used of the subject of the refresh in frame f, in store
\* <<rs, eu>>
StoredUsed(f, rs, eu) ==
    IF f.op = "get_reseller_info" THEN rs[f.key].bandwidth_used ELSE eu[f.key].bandwidth_used

\* the refresh in frame f has a subject
HasSubject(f) ==
    IF f.op = "get_reseller_info" THEN f.key \in DOMAIN resellers
                                  ELSE f.key \in DOMAIN end_users

\* C12: usage refresh is idempotent - when a caller makes the same refresh
\* (get_reseller_info or get_user_info) of the same subject twice in a row, nothing
\* else running in between, and the panel gives the second call the answer it gave
\* the first, the bandwidth_used stored after the second call is the one stored
\* after the first.
C12_RefreshIdempotent ==
    [][\A t \in Tasks :
          (/\ Refreshes(tasks[t])
           /\ tasks[t].pc # "done"
           /\ tasks'[t].pc = "done"
           /\ tasks'[t].result = "Ok"
           /\ tasks[t].prev.set
           /\ tasks'[t].resp = tasks[t].prev.resp
           /\ tasks'[t].traffic = tasks[t].prev.traffic)
              => StoredUsed(tasks[t], resellers', end_users') = tasks[t].prev.used]_vars

\* a refresh has returned that followed the same refresh of the same subject, the
\* panel having reported traffic, and the same traffic, to both
C12_Witness ==
    \E t \in Tasks :
        /\ tasks[t].pc = "done"
        /\ Refreshes(tasks[t])
        /\ tasks[t].result = "Ok"
        /\ tasks[t].resp
        /\ tasks[t].traffic > 0
        /\ tasks[t].prev.set
        /\ tasks[t].prev.resp
        /\ tasks[t].prev.traffic = tasks[t].traffic
        /\ HasSubject(tasks[t])
        /\ StoredUsed(tasks[t], resellers, end_users) = tasks[t].traffic
        /\ tasks[t].prev.used = tasks[t].traffic

\* C13: a usage refresh the panel answered sets the stored bandwidth_used of its
\* subject to the used_traffic the panel reported and changes nothing else: not the
\* subject's limits, expiry or counts, no other reseller or end-user, no admin, no
\* ledger row, nothing on the panel.
C13_RefreshWritesUsedOnly ==
    [][\A t \in Tasks :
          /\ (tasks[t].pc = "gri_resume" /\ tasks[t].resp /\ tasks'[t].pc # "gri_resume")
                => /\ resellers' = [resellers EXCEPT
                                       ![tasks[t].rid].bandwidth_used = tasks[t].traffic]
                   /\ UNCHANGED <<end_users, usage_log, notifications, users, admins, panel>>
          /\ (tasks[t].pc = "gui_resume" /\ tasks[t].resp /\ tasks'[t].pc # "gui_resume")
                => /\ end_users' = [end_users EXCEPT
                                       ![tasks[t].uid].bandwidth_used = tasks[t].traffic]
                   /\ UNCHANGED <<resellers, usage_log, notifications, users, admins, panel>>]_vars

\* get_user_info has refreshed the second of two end-users to the traffic the panel
\* reported; the first end-user and the limit of the second are as create_user left
\* them
C13_Witness ==
    \E t \in Tasks :
        /\ tasks[t].pc = "done"
        /\ tasks[t].op = "get_user_info"
        /\ tasks[t].resp
        /\ tasks[t].traffic > 0
        /\ tasks[t].key = 2
        /\ Len(end_users) = 2
        /\ end_users[2].bandwidth_used = tasks[t].traffic
        /\ end_users[2].bandwidth_limit > 0
        /\ end_users[1].bandwidth_used = 0

\* frame f holds a returned check_admin_limits of a known admin
Checked(f) == f.pc = "done" /\ f.op = "check_admin_limits" /\ f.result = "Ok"

\* tag m occurs exactly once in the list msgs
Once(m, msgs) == Cardinality({i \in DOMAIN msgs : msgs[i] = m}) = 1

\* tag m does not occur in the list msgs
Never(m, msgs) == \A i \in DOMAIN msgs : msgs[i] # m

\* C14: check_admin_limits returns every reason that holds, each once - bandwidth
\* exhausted (max_bandwidth_gb > 0 and used >= max), users exhausted (max_users > 0
\* and created_users >= max_users), expired (expiry_date set and now > expiry_date)
\* - and no other, and is_limited is true exactly when the list is not empty.
C14_AllReasonsReported ==
    \A t \in Tasks :
        (Checked(tasks[t]) /\ tasks[t].at = now) =>
            LET limits == MergedLimits(admins[tasks[t].admin])
                msgs == tasks[t].limit_messages
            IN  /\ IF limits["max_bandwidth_gb"] > 0
                         /\ limits["used_bandwidth_gb"] >= limits["max_bandwidth_gb"]
                   THEN Once("bandwidth", msgs) ELSE Never("bandwidth", msgs)
                /\ IF limits["max_users"] > 0
                         /\ limits["created_users"] >= limits["max_users"]
                   THEN Once("users", msgs) ELSE Never("users", msgs)
                /\ IF limits["expiry_date"] # None /\ now > limits["expiry_date"]
                   THEN Once("expired", msgs) ELSE Never("expired", msgs)
                /\ Len(msgs) <= 3
                /\ tasks[t].is_limited <=> msgs # <<>>

\* check_admin_limits has returned all three reasons at once
C14_Witness ==
    \E t \in Tasks :
        /\ Checked(tasks[t])
        /\ tasks[t].is_limited
        /\ Len(tasks[t].limit_messages) = 3

\* C15: get_admin_limits and check_admin_limits are pure reads - for a known or an
\* unknown admin, the step in which either returns leaves the stored limits of
\* every admin, and the rest of the store, as they were; the defaults merged into
\* the returned dictionary are not stored.
C15_ReadsArePure ==
    [][\A t \in Tasks :
          (tasks[t].pc \in {"get_admin_limits", "check_admin_limits"}
              /\ tasks'[t].pc = "done")
              => UNCHANGED <<admins, resellers, end_users, usage_log, notifications, users,
                             panel>>]_vars

\* get_admin_limits has returned, for an admin whose stored limits name fewer keys,
\* a dictionary with the defaults merged in
C15_Witness ==
    \E t \in Tasks :
        /\ tasks[t].pc = "done"
        /\ tasks[t].op = "get_admin_limits"
        /\ tasks[t].result = "Ok"
        /\ DOMAIN tasks[t].limits = DOMAIN DefaultLimits
        /\ DOMAIN admins[tasks[t].admin] # DOMAIN DefaultLimits
        /\ DOMAIN admins[tasks[t].admin] # {}

\* the expiry_date get_admin_limits reports for stored limits l (None: not set)
AdminExpiry(l) == MergedLimits(l)["expiry_date"]

\* C16: expiry monotonicity - an expiry that is set is never reset to null and
\* never moved to an earlier instant, by any operation, on an admin or on a
\* reseller.
C16_ExpiryMonotone ==
    [][/\ \A a \in DOMAIN admins :
             AdminExpiry(admins[a]) # None
                 => /\ AdminExpiry(admins'[a]) # None
                    /\ AdminExpiry(admins'[a]) >= AdminExpiry(admins[a])
       /\ \A r \in DOMAIN resellers :
             resellers'[r].expiry_date >= resellers[r].expiry_date]_vars

\* the end-users reseller rid owns, counted
CountUsers(rid) == Cardinality({i \in DOMAIN end_users : end_users[i].reseller_id = rid})

\* n is max(1, ceil(count / page_size)): the least n >= 1 with n * page_size >= count
IsPageCount(n, count, page_size) ==
    /\ n >= 1
    /\ n * page_size >= count
    /\ n > 1 => (n - 1) * page_size < count

\* C17: list_users_for_reseller for a known reseller with count end-users and
\* page_size >= 1 returns success with total_pages = max(1, ceil(count /
\* page_size)); with no end-users it returns success, no items and total_pages 1.
C17_UserPages ==
    \A t \in Tasks :
        (tasks[t].pc = "done" /\ tasks[t].op = "list_users_for_reseller"
            /\ ResellersByTelegram(tasks[t].key) # {})
            => LET count == CountUsers(Caller(tasks[t])) IN
               /\ tasks[t].result = "Ok"
               /\ IsPageCount(tasks[t].total_pages, count, tasks[t].page_size)
               /\ count = 0 => (tasks[t].items = <<>> /\ tasks[t].total_pages = 1)

\* two end-users were listed one to a page: two pages
C17_Witness ==
    \E t \in Tasks :
        /\ tasks[t].pc = "done"
        /\ tasks[t].op = "list_users_for_reseller"
        /\ tasks[t].result = "Ok"
        /\ tasks[t].page_size = 1
        /\ tasks[t].total_pages = 2
        /\ Len(end_users) = 2

\* C18: list_resellers with count resellers stored and page_size >= 1 returns
\* success with total_pages = max(1, ceil(count / page_size)); with no reseller
\* stored it returns success, no items and total_pages 1.
C18_ResellerPages ==
    \A t \in Tasks :
        (tasks[t].pc = "done" /\ tasks[t].op = "list_resellers")
            => LET count == Cardinality(DOMAIN resellers) IN
               /\ tasks[t].result = "Ok"
               /\ IsPageCount(tasks[t].total_pages, count, tasks[t].page_size)
               /\ count = 0 => (tasks[t].items = <<>> /\ tasks[t].total_pages = 1)

\* the remaining bytes of end-user i are in the warning range (0, WarnRemaining]
InWarningRange(i) ==
    /\ Remaining(end_users[i]) > 0
    /\ Remaining(end_users[i]) <= WarnRemaining

\* end-user i has a bandwidth_warning notification sent less than days days ago
WarnedWithin(i, days) ==
    \E k \in DOMAIN notifications :
       /\ notifications[k].user_id = i
       /\ notifications[k].notification_type = "bandwidth_warning"
       /\ now - notifications[k].sent_at.date < days

\* task t calls check_and_notify_users in this step, and the first SELECT runs
CallsSweep(t) ==
    /\ Free(t)
    /\ tasks'[t] # tasks[t]
    /\ tasks'[t].op = "check_and_notify_users"
    /\ tasks'[t].result # "Raised"

\* C19: the bandwidth sweep of a call of check_and_notify_users selects an end-user
\* exactly when its remaining bytes are in (0, WarnRemaining] and it has no
\* bandwidth_warning notification newer than BandwidthWarningDays days.
C19_BandwidthSweepSelects ==
    [][\A t \in Tasks :
          CallsSweep(t)
             => \A i \in DOMAIN end_users :
                   (\E k \in DOMAIN tasks'[t].bandwidth_warnings :
                       tasks'[t].bandwidth_warnings[k] = i)
                   <=> (InWarningRange(i) /\ ~WarnedWithin(i, BandwidthWarningDays))]_vars

\* C20: for an end-user within the warning range, two sweeps called less than
\* BandwidthWarningDays days apart do not both send a bandwidth alert, and no two
\* bandwidth_warning rows of its are less than BandwidthWarningDays days apart.
C20_OneWarningInWindow ==
    \A i \in DOMAIN end_users :
       InWarningRange(i)
          => /\ \A j, k \in DOMAIN outbox :
                   (/\ j < k
                    /\ outbox[j].user_id = i /\ outbox[k].user_id = i
                    /\ outbox[j].notification_type = "bandwidth_warning"
                    /\ outbox[k].notification_type = "bandwidth_warning")
                      => outbox[k].run - outbox[j].run >= BandwidthWarningDays
             /\ \A j, k \in DOMAIN notifications :
                   (/\ j < k
                    /\ notifications[j].user_id = i /\ notifications[k].user_id = i
                    /\ notifications[j].notification_type = "bandwidth_warning"
                    /\ notifications[k].notification_type = "bandwidth_warning")
                      => notifications[k].sent_at.date - notifications[j].sent_at.date
                            >= BandwidthWarningDays

\* the expiry of end-user i is near: 0 < expiry_date - now <= ExpirySoonDays
ExpiresSoon(i) ==
    /\ end_users[i].expiry_date - now > 0
    /\ end_users[i].expiry_date - now <= ExpirySoonDays

\* end-user i has an expiry_warning notification sent less than days days ago
ExpiryWarnedWithin(i, days) ==
    \E k \in DOMAIN notifications :
       /\ notifications[k].user_id = i
       /\ notifications[k].notification_type = "expiry_warning"
       /\ now - notifications[k].sent_at.date < days

\* the sweep of task t runs its second SELECT in this step
RunsExpirySelect(t) ==
    /\ Free(t) \/ tasks[t].pc = "send_bandwidth_warning"
    /\ tasks'[t] # tasks[t]
    /\ tasks'[t].op = "check_and_notify_users"
    /\ tasks'[t].expiry_selected

\* C21: the expiry sweep selects an end-user exactly when its expiry is near
\* (0 < expiry_date - now <= ExpirySoonDays) and it has no expiry_warning
\* notification newer than ExpiryWarningDays days, and an expiry alert is never
\* delivered for an end-user by a sweep called less than ExpiryWarningDays days
\* after a sweep that delivered one.
C21_ExpirySweepSelects ==
    [][/\ \A t \in Tasks :
             RunsExpirySelect(t)
                => \A i \in DOMAIN end_users :
                      (\E k \in DOMAIN tasks'[t].expiry_warnings :
                          tasks'[t].expiry_warnings[k] = i)
                      <=> (ExpiresSoon(i) /\ ~ExpiryWarnedWithin(i, ExpiryWarningDays))
       /\ (Len(outbox') = Len(outbox) + 1
           /\ outbox'[Len(outbox')].notification_type = "expiry_warning")
             => \A j \in DOMAIN outbox :
                   (/\ outbox[j].user_id = outbox'[Len(outbox')].user_id
                    /\ outbox[j].notification_type = "expiry_warning")
                      => outbox'[Len(outbox')].run - outbox[j].run >= ExpiryWarningDays
      ]_vars

\* C22: once a sweep is over, every alert it delivered went to the telegram_id of
\* the reseller owning the end-user and has its notifications row committed,
\* whether or not a later send_message of the sweep failed.
C22_DeliveredAlertsRecorded ==
    (\A t \in Tasks : ~InSendMessage(t))
       => \A j \in DOMAIN outbox :
             /\ outbox[j].chat_id
                   = resellers[end_users[outbox[j].user_id].reseller_id].telegram_id
             /\ \E k \in DOMAIN notifications :
                   /\ notifications[k].user_id = outbox[j].user_id
                   /\ notifications[k].notification_type = outbox[j].notification_type
                   /\ notifications[k].sent_at.date = outbox[j].at

\* the frame of a tick of check_notifications that is over, the loop asleep
TickOver(f) == f.pc = "done" /\ f.op = "check_and_notify_users"

\* C23: after a tick of check_notifications with no failure the loop sleeps
\* NotificationInterval, and after a tick in which a sweep failed it sleeps
\* ErrorBackoff.
C23_BackoffAfterFailure ==
    \A t \in Tasks :
       TickOver(tasks[t])
          => tasks[t].wait = IF tasks[t].result = "Ok"
                             THEN NotificationInterval ELSE ErrorBackoff

\* C24: a failure in the bandwidth sweep does not keep the expiry sweep of the
\* same tick from running: every check_and_notify_users that has returned, with
\* or without a failed send_message, has run its second SELECT.
C24_ExpirySweepAlwaysRuns ==
    \A t \in Tasks :
       (TickOver(tasks[t]) /\ tasks[t].result \in {"Ok", "Error"})
          => tasks[t].expiry_selected

\* the frame of a cycle of send_scheduled_reports that is over, the loop asleep
CycleOver(f) == f.pc = "done" /\ f.op = "send_scheduled_reports"

\* C25: a cycle of send_scheduled_reports with no error has delivered the report
\* to every super admin and is followed by a sleep of ReportInterval; a cycle that
\* hit an error (the SELECT raising, generate_system_report returning failure, a
\* send_message raising) is followed by a sleep of ReportBackoff.
C25_ReportCycle ==
    \A t \in Tasks :
       CycleOver(tasks[t])
          => IF tasks[t].result = "Ok" /\ tasks[t].generated /\ ~tasks[t].failed
             THEN /\ tasks[t].delivered = tasks[t].super_admins
                  /\ tasks[t].wait = ReportInterval
             ELSE tasks[t].wait = ReportBackoff

\* the frame of a call of a MarzbanAPI operation that has returned
ApiReturned(f) == f.pc = "done" /\ f.op \in ApiOps

\* C26: a MarzbanAPI operation returns with a request rejected for authorization
\* (401) only after it has logged in again once and sent the request a second
\* time; and with the panel reachable and the credentials valid, which they are
\* throughout, it does not return with a 401 at all.
C26_ReauthAndRetry ==
    \A t \in Tasks :
       (ApiReturned(tasks[t]) /\ tasks[t].status = 401)
          => /\ tasks[t].reauth = 1
             /\ tasks[t].requests = 2
             /\ ~tasks[t].resp

\* C27: no operation changes the reseller_id of an end_users row: every row has,
\* after every step, the reseller_id it had before (rows are only added).
C27_OwnerFixed ==
    [][/\ Len(end_users') >= Len(end_users)
       /\ \A i \in DOMAIN end_users :
             end_users'[i].reseller_id = end_users[i].reseller_id]_vars

\* two end-users of one reseller, a second reseller created since on the same
\* telegram_id, the usage of an end-user refreshed from the panel, and a sweep
\* having warned about one
C27_Witness ==
    /\ Len(end_users) = 2
    /\ Cardinality(ResellersByTelegram(resellers[end_users[1].reseller_id].telegram_id)) > 1
    /\ \E i \in DOMAIN end_users : end_users[i].bandwidth_used > 0
    /\ \E k \in DOMAIN notifications : notifications[k].user_id = 1

\* the budget of a resellers row: exhausted when a cap is reached, expired when
\* its expiry_date is not in the future, active when neither
Exhausted(r) == UserLimitReached(r) \/ r.bandwidth_used >= r.bandwidth_limit
BudgetExpired(r) == r.expiry_date <= now
Active(r) == ~Exhausted(r) /\ ~BudgetExpired(r)

InGatewayCall(t) ==
    /\ tasks[t].op \in {"create_user", "create_reseller", "update_reseller_limits"}
    /\ tasks[t].pc \in {"cu_await", "cr_await", "gri_await", "url_await"}

\* C29: while create_user, create_reseller or update_reseller_limits is suspended
\* in a call of the panel's API, its connection holds no uncommitted write.
C29_NoWriteAcrossGateway ==
    \A t \in Tasks : InGatewayCall(t) => tasks[t].pending = <<>>

\* tasks t and s have both returned success from update_reseller_limits on the
\* same reseller, having read the same stored limits: neither call read what the
\* other wrote, so the two ran at once
BothExtended(t, s) ==
    /\ t # s
    /\ \A c \in {t, s} : /\ tasks[c].pc = "done"
                          /\ tasks[c].op = "update_reseller_limits"
                          /\ tasks[c].result = "Ok"
    /\ tasks[t].key = tasks[s].key
    /\ tasks[t].row = tasks[s].row

\* C30: when two update_reseller_limits calls on one reseller run at once and both
\* succeed, the stored bandwidth_limit, max_users and expiry_date are the values
\* both read plus the additions of both, and the panel's data_limit is the stored
\* bandwidth_limit.
C30_NoLostUpdate ==
    \A t, s \in Tasks :
        BothExtended(t, s) =>
            LET r == resellers[tasks[t].key]
                row == tasks[t].row
            IN  /\ r.bandwidth_limit = row.bandwidth_limit
                      + (tasks[t].add_bandwidth_gb + tasks[s].add_bandwidth_gb) * GiB
                /\ r.max_users = row.max_users + tasks[t].add_users + tasks[s].add_users
                /\ r.expiry_date = row.expiry_date + tasks[t].add_days + tasks[s].add_days
                /\ api => panel[r.marzban_username].data_limit = r.bandwidth_limit

\* the state of a reseller's budget; a budget that is being warned about is still
\* active
BudgetState(r) ==
    IF BudgetExpired(r) THEN "Expired" ELSE IF Exhausted(r) THEN "Exhausted" ELSE "Active"

\* this step moves the budget of reseller rid from one state to another
BudgetMoves(rid) ==
    /\ rid \in DOMAIN resellers
    /\ BudgetState(resellers[rid])' # BudgetState(resellers[rid])

\* this step is a day passing, the write of a usage refresh, or the commit of an
\* update_reseller_limits
RefreshExtendOrTime ==
    \/ now' # now
    \/ \E t \in Tasks : tasks[t].pc = "gri_resume"
    \/ \E t \in Tasks : CommitsUpdate(t)

UsageKeys == {"used_bandwidth_gb", "created_users"}

\* an amount given to update_admin_usage, None adding nothing
Delta(x) == IF x = None THEN 0 ELSE x

\* this step is the one in which task t's update_admin_usage commits
CommitsUsage(t) ==
    /\ tasks[t].pc = "update_admin_usage"
    /\ tasks'[t].pc = "done"
    /\ tasks'[t].result = "Ok"

\* this step is the one in which task t's set_admin_limits commits
CommitsSet(t) ==
    /\ tasks[t].pc = "set_admin_limits"
    /\ tasks'[t].pc = "done"
    /\ tasks'[t].result = "Ok"

\* C32: no update is lost on an admin's budget, however the calls of two callers
\* interleave - every update_admin_usage adds its amounts to the usage stored when
\* it commits and keeps every limit stored then, and every set_admin_limits stores
\* the limits it is given and keeps the usage stored when it commits.
C32_AdminNoLostUpdate ==
    [][\A t \in Tasks :
          LET a == tasks[t].admin
              old == admins[a]
              new == admins'[a]
          IN  /\ CommitsUsage(t) =>
                    /\ new["used_bandwidth_gb"]
                          = MergedLimits(old)["used_bandwidth_gb"]
                                + Delta(tasks[t].bandwidth_used)
                    /\ new["created_users"]
                          = MergedLimits(old)["created_users"]
                                + Delta(tasks[t].users_created)
                    /\ \A k \in DOMAIN old \ UsageKeys :
                          k \in DOMAIN new /\ new[k] = old[k]
              /\ CommitsSet(t) =>
                    /\ \A k \in UsageKeys :
                          IF k \in DOMAIN old
                          THEN k \in DOMAIN new /\ new[k] = old[k]
                          ELSE k \notin DOMAIN new
                    /\ tasks[t].max_bandwidth # None
                          => new["max_bandwidth_gb"] = tasks[t].max_bandwidth
                    /\ tasks[t].max_users # None
                          => new["max_users"] = tasks[t].max_users
                    /\ tasks[t].max_days # None
                          => new["max_days"] = tasks[t].max_days]_vars

\* two update_admin_usage calls of one unit each have both committed on an admin
\* whose max_users an earlier set_admin_limits had set: the usage is two units and
\* the limit is still there
C32_Witness ==
    /\ \A t \in Tasks :
          /\ tasks[t].pc = "done"
          /\ tasks[t].op = "update_admin_usage"
          /\ tasks[t].result = "Ok"
          /\ tasks[t].bandwidth_used = 1
          /\ tasks[t].admin = "admin1"
    /\ "max_users" \in DOMAIN admins["admin1"]
    /\ admins["admin1"]["max_users"] = 1
    /\ admins["admin1"]["used_bandwidth_gb"] = 2

\* C33: when the panel's create_user fails (the login included), create_user
\* returns failure, and neither the failing remote call nor the return adds an
\* end_users row or changes a resellers row.
C33_RemoteFailureLeavesStore ==
    [][\A t \in Tasks :
          /\ (tasks[t].pc = "cu_await" /\ tasks'[t].pc = "cu_resume" /\ ~tasks'[t].resp)
                => UNCHANGED <<store, panel>>
          /\ (tasks[t].pc = "cu_resume" /\ ~tasks[t].resp /\ tasks'[t] # tasks[t])
                => /\ tasks'[t].pc = "done"
                   /\ tasks'[t].result = "RemoteError"
                   /\ UNCHANGED <<store, panel>>]_vars

\* a create_user has returned the failure of the panel; the only end-user there is
\* was created by the other caller, and the reseller is charged for that one only
C33_Witness ==
    \E t, c \in Tasks :
        /\ tasks[t].pc = "done"
        /\ tasks[t].op = "create_user"
        /\ tasks[t].result = "RemoteError"
        /\ Created(tasks[c])
        /\ Len(end_users) = 1
        /\ resellers[end_users[1].reseller_id].current_users = 1
        /\ resellers[end_users[1].reseller_id].bandwidth_used = end_users[1].bandwidth_limit

\* C34: when the panel's create_user fails, create_reseller returns failure, and
\* neither the failing remote call nor the return changes the store: no resellers
\* row and no users row is added, and no role is changed.
C34_RemoteFailureLeavesStore ==
    [][\A t \in Tasks :
          /\ (tasks[t].pc = "cr_await" /\ tasks'[t].pc = "cr_resume" /\ ~tasks'[t].resp)
                => UNCHANGED <<store, panel>>
          /\ (tasks[t].pc = "cr_resume" /\ ~tasks[t].resp /\ tasks'[t] # tasks[t])
                => /\ tasks'[t].pc = "done"
                   /\ tasks'[t].result = "RemoteError"
                   /\ UNCHANGED <<store, panel>>]_vars

\* two create_reseller calls have returned the failure of the panel: one for an
\* admin, who still is an admin, and one for somebody without a users row, who
\* still has none; neither has a resellers row
C34_Witness ==
    \E t, s \in Tasks :
        /\ \A c \in {t, s} : /\ tasks[c].pc = "done"
                              /\ tasks[c].op = "create_reseller"
                              /\ tasks[c].result = "RemoteError"
                              /\ ResellersByTelegram(tasks[c].key) = {}
        /\ tasks[t].key \in StartedIds
        /\ users[tasks[t].key] = "admin"
        /\ tasks[s].key \notin DOMAIN users

\* task t is in a get_reseller_info or get_user_info called for itself, resuming
\* from a call of the panel that failed
ResumesFailedRefresh(t) ==
    /\ tasks[t].op \in {"get_reseller_info", "get_user_info"}
    /\ tasks[t].pc \in {"gri_resume", "gui_resume"}
    /\ ~tasks[t].resp
    /\ tasks'[t] # tasks[t]

\* C35: when the panel's get_user_info fails, get_reseller_info and get_user_info
\* return success all the same, and neither the failing call nor the return changes
\* a stored bandwidth_used, or anything else in the store.
C35_FailedRefreshKeepsUsage ==
    [][\A t \in Tasks :
          /\ (/\ tasks[t].op \in {"get_reseller_info", "get_user_info"}
              /\ tasks[t].pc \in {"gri_await", "gui_await"}
              /\ tasks'[t].pc \in {"gri_resume", "gui_resume"}
              /\ ~tasks'[t].resp)
                => UNCHANGED <<store, panel>>
          /\ ResumesFailedRefresh(t)
                => /\ tasks'[t].pc = "done"
                   /\ tasks'[t].result = "Ok"
                   /\ UNCHANGED <<store, panel>>]_vars

\* a refresh that the panel did not answer has returned success, after a refresh of
\* the same subject that had stored the traffic the panel reported: the stored
\* bandwidth_used is still that traffic
C35_Witness ==
    \E t \in Tasks :
        /\ tasks[t].pc = "done"
        /\ Refreshes(tasks[t])
        /\ tasks[t].result = "Ok"
        /\ ~tasks[t].resp
        /\ HasSubject(tasks[t])
        /\ tasks[t].prev.set
        /\ tasks[t].prev.resp
        /\ tasks[t].prev.traffic > 0
        /\ StoredUsed(tasks[t], resellers, end_users) = tasks[t].prev.traffic

\* no call is running
Quiescent == \A t \in Tasks : Free(t)

\* C36: with the panel API configured, whenever no call is running the panel holds
\* one account per resellers row and no other, and each account's data_limit and
\* expire are the row's bandwidth_limit and expiry_date.
C36_LocalRemoteAgree ==
    (api /\ Quiescent) =>
        /\ DOMAIN panel = {resellers[r].marzban_username : r \in DOMAIN resellers}
        /\ \A r \in DOMAIN resellers :
              LET u == resellers[r].marzban_username IN
              u \in DOMAIN panel =>
                  /\ panel[u].data_limit = resellers[r].bandwidth_limit
                  /\ panel[u].expire = resellers[r].expiry_date

\* this step is the one in which task t's set_admin_limits runs
RunsSet(t) == tasks[t].pc = "set_admin_limits" /\ tasks'[t].pc = "done"

\* the keys set_admin_limits is given a value for, and the value
GivenLimits(f) ==
    LET mb == IF f.max_bandwidth # None
              THEN Put(EmptyLimits, "max_bandwidth_gb", f.max_bandwidth) ELSE EmptyLimits
        mu == IF f.max_users # None THEN Put(mb, "max_users", f.max_users) ELSE mb
    IN  IF f.max_days # None
        THEN Put(Put(mu, "max_days", f.max_days), "expiry_date", now + f.max_days)
        ELSE mu

\* C37: set_admin_limits changes only what it is given - for a stored admin it
\* writes the limit fields whose argument is not None (and expiry_date, now plus
\* max_days, when max_days is given) and leaves every other field of the admin's
\* object, the usage counters among them, and every other admin as they are; for
\* an unknown admin it returns failure and changes nothing.
C37_SetChangesOnlyGiven ==
    [][\A t \in Tasks : RunsSet(t) =>
          LET a == tasks[t].admin
              given == GivenLimits(tasks[t])
          IN  IF a \in DOMAIN admins
              THEN /\ tasks'[t].result = "Ok"
                   /\ DOMAIN admins' = DOMAIN admins
                   /\ \A b \in DOMAIN admins \ {a} : admins'[b] = admins[b]
                   /\ DOMAIN admins'[a] = DOMAIN admins[a] \cup DOMAIN given
                   /\ \A k \in DOMAIN given : admins'[a][k] = given[k]
                   /\ \A k \in DOMAIN admins[a] \ DOMAIN given :
                         admins'[a][k] = admins[a][k]
              ELSE /\ tasks'[t].result = "NotFound"
                   /\ store' = store]_vars

\* a set_admin_limits given max_users only has returned, and the admin's object
\* holds usage and a bandwidth limit beside it
C37_Witness ==
    \E t \in Tasks :
        /\ tasks[t].pc = "done"
        /\ tasks[t].op = "set_admin_limits"
        /\ tasks[t].result = "Ok"
        /\ tasks[t].max_bandwidth = None
        /\ tasks[t].max_users # None
        /\ tasks[t].max_days = None
        /\ LET l == admins[tasks[t].admin] IN
           /\ UsageKeys \cup {"max_bandwidth_gb"} \subseteq DOMAIN l
           /\ l["used_bandwidth_gb"] > 0
           /\ l["max_users"] = tasks[t].max_users
           /\ l["max_bandwidth_gb"] # DefaultLimits["max_bandwidth_gb"]

\* this step runs marzban-cli: admin_manager.create_admin is invoked
InvokesCreateAdmin ==
    /\ Len(admin_calls') > Len(admin_calls)
    /\ admin_calls'[Len(admin_calls) + 1].cmd = "admin create"

\* the states in which a text is awaited
WaitingStates ==
    {"WAITING_ADMIN_USERNAME", "WAITING_ADMIN_PASSWORD", "WAITING_ADMIN_TELEGRAM_ID"}

\* the key a waiting state stores its text under, and the state that follows it
StoredKey(state) ==
    CASE state = "WAITING_ADMIN_USERNAME" -> "admin_username"
      [] state = "WAITING_ADMIN_PASSWORD" -> "admin_password"
      [] state = "WAITING_ADMIN_TELEGRAM_ID" -> "admin_telegram_id"

FollowingState(state) ==
    CASE state = "WAITING_ADMIN_USERNAME" -> "WAITING_ADMIN_PASSWORD"
      [] state = "WAITING_ADMIN_PASSWORD" -> "WAITING_ADMIN_TELEGRAM_ID"
      [] state = "WAITING_ADMIN_TELEGRAM_ID" -> "ADMIN_PERMISSIONS"

\* text is what the waiting state asks for: a username that is not empty and
\* holds no space, a password of 6 characters or more, a number
Asked(state, text) ==
    CASE state = "WAITING_ADMIN_USERNAME" ->
             text # <<>> /\ \A i \in DOMAIN text : text[i] # " "
      [] state = "WAITING_ADMIN_PASSWORD" -> Len(text) >= 6
      [] state = "WAITING_ADMIN_TELEGRAM_ID" ->
             LET digits == IF text # <<>> /\ Head(text) \in {"+", "-"}
                           THEN Tail(text) ELSE text
             IN  digits # <<>> /\ \A i \in DOMAIN digits : digits[i] \in Digits

\* C38: admin_manager.create_admin is invoked only from WAITING_ADMIN_CONFIRM, by a
\* button other than cancel, in a flow that has accepted a username, a password
\* and a Telegram id in that order and in which cancel was not pressed, and with
\* the username and password so accepted, which are valid; and a text that is not
\* what a waiting state asks for leaves the state and user_data as they are, while
\* one that is is stored and moves the conversation on.
C38_CreateOnlyAfterValidInputs ==
    [][/\ InvokesCreateAdmin =>
            \E u \in Operators :
                LET call == admin_calls'[Len(admin_calls) + 1] IN
                /\ conversations[u] = "WAITING_ADMIN_CONFIRM"
                /\ flow'[u].update # <<"cancel_admin">>
                /\ ~flow[u].cancelled
                /\ flow[u].accepted =
                       <<"admin_username", "admin_password", "admin_telegram_id">>
                /\ call.username = user_data[u]["admin_username"]
                /\ call.password = user_data[u]["admin_password"]
                /\ Asked("WAITING_ADMIN_USERNAME", call.username)
                /\ Asked("WAITING_ADMIN_PASSWORD", call.password)
                /\ user_data[u]["admin_telegram_id"] \in Int
       /\ \A u \in Operators :
            (conversations[u] \in WaitingStates /\ flow'[u].update \in Texts) =>
                LET state == conversations[u]
                    text == flow'[u].update
                IN  IF Asked(state, text)
                    THEN /\ conversations'[u] = FollowingState(state)
                         /\ StoredKey(state) \in DOMAIN user_data'[u]
                         /\ flow'[u].accepted = Append(flow[u].accepted, StoredKey(state))
                    ELSE /\ conversations'[u] = state
                         /\ user_data'[u] = user_data[u]
                         /\ flow'[u].accepted = flow[u].accepted]_vars

\* an admin has been created from WAITING_ADMIN_CONFIRM and stored, the flow having
\* accepted the three values in order; user_data is cleared and the menu shown
C38_Witness ==
    \E u \in Operators :
        /\ admin_calls # <<>>
        /\ admin_calls[1].cmd = "admin create"
        /\ admin_calls[1].ok
        /\ admin_calls[1].state = "WAITING_ADMIN_CONFIRM"
        /\ admin_calls[1].username \in DOMAIN permissions
        /\ flow[u].accepted = <<"admin_username", "admin_password", "admin_telegram_id">>
        /\ conversations[u] = "ADMIN_MENU"
        /\ user_data[u] = NoData

\* the elements of a list
Elements(list) == {list[i] : i \in DOMAIN list}

\* C39: the permissions create_admin_confirmed passes to update_admin_permissions
\* and stores for the new admin are those toggled on, or those of the preset
\* chosen, since the create_admin_start of the flow that creates the admin.
C39_PermissionsOfThisFlow ==
    [][InvokesCreateAdmin =>
          \A u \in Operators :
              conversations[u] = "WAITING_ADMIN_CONFIRM" =>
                  /\ \A i \in (Len(admin_calls) + 1)..Len(admin_calls') :
                        admin_calls'[i].cmd = "admin update" =>
                            Elements(admin_calls'[i].permissions)
                                = Elements(flow[u].selected)
                  /\ \A a \in DOMAIN permissions' \ DOMAIN permissions :
                        Elements(permissions'[a]) = Elements(flow[u].selected)]_vars
====
